---------------------------- MODULE Spec2Model ----------------------------
(***************************************************************************)
(* A model of the request router in src/lib/layer.js: the route entry      *)
(* (Layer), the registry (Router), the dispatcher (Router.routes) and the  *)
(* methods guard (Router.allowedMethods).                                  *)
(*                                                                         *)
(* Strings that are paths are sequences of tokens: the separator "/", a    *)
(* literal segment, a parameter token (a colon and a name) or the          *)
(* catch-all group that Router.use registers when it is given no path.     *)
(* String concatenation is sequence concatenation.  A literal segment is   *)
(* atomic: no literal of the model is a proper prefix of another, and      *)
(* matching is case-insensitive in the code (all literals here are lower   *)
(* case).  A path that is matched against a pattern is read as text: the   *)
(* group's text holds a separator and falls into three tokens, and a       *)
(* parameter takes one or more neighbouring tokens that are no separator.  *)
(* JavaScript arrays and objects that the code shares by reference         *)
(* (an entry, a middleware stack array) live in heaps indexed by identity. *)
(***************************************************************************)
EXTENDS Naturals, Sequences, FiniteSets, TLC

VARIABLES
    routers,   \* registry id -> [prefix, params, stack]; stack holds entry ids
    layers,    \* heap of route entries (Layer objects), index = identity
    stacks,    \* heap of middleware stack arrays, index = identity
    nOps,      \* number of configuration calls made so far
    result,    \* what the last configuration-phase call threw or returned
    ctx,       \* the context of the request being served
    exec       \* where the request's middleware pipeline stands

cfgVars == <<routers, layers, stacks, nOps, result>>
reqVars == <<ctx, exec>>
vars == <<routers, layers, stacks, nOps, result, ctx, exec>>

----------------------------------------------------------------------------
(* Bounds of the model *)

MaxLayers == 4
MaxOps == 3
MaxServeOps == 2

----------------------------------------------------------------------------
(* Generic helpers on sequences *)

\* Array.prototype.indexOf, 1-based; 0 when absent (JavaScript's -1)
IndexOf(s, x) ==
    LET at == { i \in 1..Len(s) : s[i] = x }
    IN  IF at = {} THEN 0 ELSE CHOOSE i \in at : \A j \in at : i <= j

Range(s) == { s[i] : i \in 1..Len(s) }

----------------------------------------------------------------------------
(* Path patterns: the part of path-to-regexp the entries rely on *)

Slash == "/"
\* the pattern text of Router.use without a path: a group of non-separator
\* characters, possibly empty.  Written right after a parameter token it is
\* that parameter's own pattern: the two tokens are one key
CatchAll == "(catchall)"
ParamToks == {":a", ":b"}
ParamNameOf == [t \in ParamToks |-> IF t = ":a" THEN "a" ELSE "b"]
ParamNamesAll == { ParamNameOf[t] : t \in ParamToks }
RootPath == <<Slash>>
NoName == ""
NoParam == ""

\* a parameter token at p[i] with the group as its pattern: one key whose
\* text may be empty
PatternedKey(p, i) == p[i] \in ParamToks /\ i < Len(p) /\ p[i + 1] = CatchAll

\* the keys pathToRegexp pushes into paramNames, for the pattern p[i..]: one
\* per parameter, in pattern order; a group that follows no parameter is
\* unnamed and gets the numeric name 0
RECURSIVE KeysFrom(_, _)
KeysFrom(p, i) ==
    IF i > Len(p) THEN <<>>
    ELSE IF PatternedKey(p, i) THEN <<ParamNameOf[p[i]]>> \o KeysFrom(p, i + 2)
    ELSE IF p[i] \in ParamToks THEN <<ParamNameOf[p[i]]>> \o KeysFrom(p, i + 1)
    ELSE IF p[i] = CatchAll THEN <<"0">> \o KeysFrom(p, i + 1)
    ELSE KeysFrom(p, i + 1)

KeysOf(path) == KeysFrom(path, 1)

\* does the compiled pattern consume path tokens s[j..] with pattern p[i..],
\* and is the rest of s accepted by the pattern's ending?
\* ends: end=true  -> optional trailing separator (unless strict), then end of input
\*       end=false -> prefix match; a pattern that does not end in a separator
\*                    must stop at a separator or at the end of input
EndOk(p, opts, s, j) ==
    IF opts.end
    THEN \/ j = Len(s) + 1
         \/ (~opts.strict /\ j = Len(s) /\ s[j] = Slash)
    ELSE LET isEndDelimited == p = <<>> \/ p[Len(p)] = Slash
         IN  \/ isEndDelimited
             \/ j = Len(s) + 1
             \/ (j <= Len(s) /\ s[j] = Slash)

\* the number of tokens of s from position j up to the next separator or the
\* end of s: the text a key can take, which never holds a separator
RECURSIVE RunLen(_, _)
RunLen(s, j) == IF j > Len(s) \/ s[j] = Slash THEN 0 ELSE 1 + RunLen(s, j + 1)

\* the text of the k tokens s[j], ..., s[j+k-1]
RECURSIVE Join(_, _, _)
Join(s, j, k) == IF k = 0 THEN "" ELSE s[j] \o Join(s, j + 1, k - 1)

\* the Error object Router.url returns for a name no entry has, where the
\* code takes it for a path, and the text it has as part of a string
ErrorObject == "(Error object)"
ErrorText == "Error: No route found for name"

\* a string read as the text of a path: the group's text, "([^/]*)", holds
\* a separator, which splits it; every other token holds none
RECURSIVE PathText(_)
PathText(p) ==
    IF \A i \in 1..Len(p) : p[i] # CatchAll /\ p[i] # ErrorObject THEN p
    ELSE (IF Head(p) = CatchAll THEN <<"([^", Slash, "]*)">>
          ELSE IF Head(p) = ErrorObject THEN <<ErrorText>>
          ELSE <<Head(p)>>)
         \o PathText(Tail(p))

\* does pathToRegexp throw on the path?  The error text has a colon that no
\* parameter name follows: TypeError, missing parameter name
CompileThrows(path) == \E i \in 1..Len(path) : path[i] = ErrorText

RECURSIVE MatchFrom(_, _, _, _, _)
MatchFrom(p, opts, s, i, j) ==
    IF i > Len(p) THEN EndOk(p, opts, s, j)
    ELSE LET t == p[i]
         IN  IF t = CatchAll
             THEN \E k \in 0..RunLen(s, j) : MatchFrom(p, opts, s, i + 1, j + k)
             ELSE IF t \in ParamToks
             THEN IF PatternedKey(p, i)
                  THEN \E k \in 0..RunLen(s, j) : MatchFrom(p, opts, s, i + 2, j + k)
                  ELSE \E k \in 1..RunLen(s, j) : MatchFrom(p, opts, s, i + 1, j + k)
             ELSE /\ j <= Len(s)
                  /\ s[j] = t
                  /\ MatchFrom(p, opts, s, i + 1, j + 1)

\* regexp.test(path)
RegexpTest(p, opts, s) == MatchFrom(p, opts, PathText(s), 1, 1)

\* the number of tokens the key at p[i] takes at s[j], the pattern going on
\* at p[next]: a group is greedy and takes the most the rest of the pattern
\* allows, a parameter is lazy and takes the least
GroupTake(p, opts, s, next, j) ==
    LET ks == { k \in 0..RunLen(s, j) : MatchFrom(p, opts, s, next, j + k) }
    IN  IF ks = {} THEN 0 ELSE CHOOSE k \in ks : \A m \in ks : m <= k

ParamTake(p, opts, s, next, j) ==
    LET ks == { k \in 1..RunLen(s, j) : MatchFrom(p, opts, s, next, j + k) }
    IN  IF ks = {} THEN 1 ELSE CHOOSE k \in ks : \A m \in ks : k <= m

\* path.match(regexp).slice(1) for a path the pattern matches: one capture
\* per key, in key order
RECURSIVE CapturesFrom(_, _, _, _, _)
CapturesFrom(p, opts, s, i, j) ==
    IF i > Len(p) THEN <<>>
    ELSE LET t == p[i]
         IN  IF PatternedKey(p, i)
             THEN LET k == GroupTake(p, opts, s, i + 2, j)
                  IN  <<Join(s, j, k)>> \o CapturesFrom(p, opts, s, i + 2, j + k)
             ELSE IF t = CatchAll
             THEN LET k == GroupTake(p, opts, s, i + 1, j)
                  IN  <<Join(s, j, k)>> \o CapturesFrom(p, opts, s, i + 1, j + k)
             ELSE IF t \in ParamToks
             THEN LET k == ParamTake(p, opts, s, i + 1, j)
                  IN  <<Join(s, j, k)>> \o CapturesFrom(p, opts, s, i + 1, j + k)
             ELSE CapturesFrom(p, opts, s, i + 1, j + 1)

RegexpCaptures(p, opts, s) == CapturesFrom(p, opts, PathText(s), 1, 1)

----------------------------------------------------------------------------
(* Methods *)

\* the verbs of the `methods` package, in that package's order
HttpVerbs ==
    << "acl", "bind", "checkout", "connect", "copy", "delete", "get", "head", "link",
       "lock", "m-search", "merge", "mkactivity", "mkcalendar", "mkcol", "move",
       "notify", "options", "patch", "post", "propfind", "proppatch", "purge", "put",
       "query", "rebind", "report", "search", "source", "subscribe", "trace", "unbind",
       "unlink", "unlock", "unsubscribe" >>

\* the same verbs in upper case
UpperVerbs ==
    << "ACL", "BIND", "CHECKOUT", "CONNECT", "COPY", "DELETE", "GET", "HEAD", "LINK",
       "LOCK", "M-SEARCH", "MERGE", "MKACTIVITY", "MKCALENDAR", "MKCOL", "MOVE",
       "NOTIFY", "OPTIONS", "PATCH", "POST", "PROPFIND", "PROPPATCH", "PURGE", "PUT",
       "QUERY", "REBIND", "REPORT", "SEARCH", "SOURCE", "SUBSCRIBE", "TRACE", "UNBIND",
       "UNLINK", "UNLOCK", "UNSUBSCRIBE" >>

\* String.prototype.toUpperCase on a verb
ToUpperCase(m) ==
    IF IndexOf(HttpVerbs, m) > 0 THEN UpperVerbs[IndexOf(HttpVerbs, m)] ELSE m

\* Router's default list of implemented methods
Implemented == <<"HEAD", "OPTIONS", "GET", "PUT", "PATCH", "POST", "DELETE">>

\* a Layer constructor that does not widen GET
LayerMethodsNoHead(acc, methods) ==
    acc \o [i \in 1..Len(methods) |-> ToUpperCase(methods[i])]

\* the loop of the Layer constructor over its methods argument: push the
\* upper-cased verb, and put HEAD in front when the verb pushed is GET; at
\* the end of the loop every verb is at the back in the order given and one
\* HEAD is at the front for every GET pushed
LayerMethods(acc, methods) ==
    LET pushed == [i \in 1..Len(methods) |-> ToUpperCase(methods[i])]
        gets == SelectSeq(pushed, LAMBDA m : m = "GET")
    IN  [k \in 1..Len(gets) |-> "HEAD"] \o acc \o pushed

----------------------------------------------------------------------------
(* Route entries.  Operators take and return the heap state                *)
(* st = [routers, layers, stacks].                                         *)

NoFailure == ""

\* the heap state a call starts from; threw is the error the call has thrown
St == [routers |-> routers, layers |-> layers, stacks |-> stacks, threw |-> NoFailure]

\* a plain middleware function and the wrapper Layer.param builds around a
\* validator (the wrapper carries the parameter name in its param property)
\* (destination and code are those of the handler of Router.redirect; 0
\* stands for a code that is not given)
Mw(f) == [fn |-> f, param |-> NoParam, destination |-> <<>>, code |-> 0]
ValidatorWrapper(param, f) == [Mw(f) EXCEPT !.param = param]

\* a value handed in as middleware that is no function
NonCallable == Mw("(object)")

\* the check of the Layer constructor on its stack: does it throw?
LayerThrows(stack) == \E i \in 1..Len(stack) : stack[i] = NonCallable

\* new Layer(path, methods, middleware, opts); the middleware array is the
\* stack array itself (no copy), given here by its identity.  pathToRegexp
\* reads the characters of its path argument: the Error object has no length
\* and gives it none
Layer(path, methods, stackId, opts) ==
    LET read == IF path = <<ErrorObject>> THEN <<>> ELSE path IN
    [ opts |-> opts,
      name |-> opts.name,
      methods |-> LayerMethods(<<>>, methods),
      paramNames |-> KeysOf(read),
      stack |-> stackId,
      path |-> path,
      regexp |-> read ]

\* Layer.prototype.match
LayerMatch(layer, path) == RegexpTest(layer.regexp, layer.opts, path)

\* position at which Layer.param splices the wrapper: the first stack item
\* that is no validator wrapper or whose parameter comes later in the
\* pattern; 0 when stack.some finds none
ParamInsertPos(stack, names, x) ==
    LET hit(i) == stack[i].param = NoParam \/ IndexOf(names, stack[i].param) > x
    IN  IF \E i \in 1..Len(stack) : hit(i)
        THEN CHOOSE i \in 1..Len(stack) : hit(i) /\ \A j \in 1..(i-1) : ~hit(j)
        ELSE 0

\* Layer.prototype.param(param, fn) on the entry with identity lid
LayerParam(st, lid, param, f) ==
    LET layer == st.layers[lid]
        stack == st.stacks[layer.stack]
        names == layer.paramNames
        x == IndexOf(names, param)
        pos == ParamInsertPos(stack, names, x)
    IN  IF x > 0 /\ pos > 0
        THEN [st EXCEPT !.stacks[layer.stack] =
                            SubSeq(stack, 1, pos - 1)
                            \o <<ValidatorWrapper(param, f)>>
                            \o SubSeq(stack, pos, Len(stack))]
        ELSE st

\* the path Layer.setPrefix derives; in the template string the Error object
\* gives its text
PrefixedPath(layer, prefix) ==
    IF layer.path # RootPath \/ layer.opts.strict
    THEN prefix \o [i \in 1..Len(layer.path) |->
                        IF layer.path[i] = ErrorObject THEN ErrorText ELSE layer.path[i]]
    ELSE prefix

\* Layer.prototype.setPrefix(prefix) on the entry with identity lid; when
\* pathToRegexp throws, the path and the emptied paramNames are already
\* assigned and the regular expression is the old one
LayerSetPrefix(st, lid, prefix) ==
    LET layer == st.layers[lid]
        path == PrefixedPath(layer, prefix)
    IN  IF st.threw # NoFailure \/ layer.path = <<>> THEN st
        ELSE IF CompileThrows(path)
        THEN [st EXCEPT !.layers[lid] = [layer EXCEPT !.path = path, !.paramNames = <<>>],
                        !.threw = "TypeError"]
        ELSE [st EXCEPT !.layers[lid] =
                 [layer EXCEPT !.path = path,
                               !.paramNames = KeysOf(path),
                               !.regexp = path]]

----------------------------------------------------------------------------
(* The registry *)

\* apply route.param(param, fn) for params[i..] in key order
RECURSIVE ApplyParams(_, _, _, _)
ApplyParams(st, lid, params, i) ==
    IF i > Len(params) THEN st
    ELSE ApplyParams(LayerParam(st, lid, params[i].name, params[i].fn), lid, params, i + 1)

\* a registration whose entry is built without the check of its middleware
RegisterOneUnchecked(st, r, path, methods, stackId, opts) ==
    IF st.threw # NoFailure THEN st
    ELSE
    LET lid == Len(st.layers) + 1
        route == Layer(path, methods, stackId,
                       [end |-> opts.end, name |-> opts.name,
                        strict |-> opts.strict \/ st.routers[r].strict,
                        ignoreCaptures |-> opts.ignoreCaptures])
        s1 == [st EXCEPT !.layers = Append(st.layers, route)]
        s2 == IF st.routers[r].prefix # <<>>
              THEN LayerSetPrefix(s1, lid, st.routers[r].prefix) ELSE s1
        s3 == ApplyParams(s2, lid, s2.routers[r].params, 1)
    IN  IF s2.threw # NoFailure THEN [st EXCEPT !.threw = s2.threw]
        ELSE [s3 EXCEPT !.routers[r].stack = Append(s3.routers[r].stack, lid)]

\* a register that puts the new entry at the front of the sequence
RegisterOneUnshift(st, r, path, methods, stackId, opts) ==
    LET s == RegisterOneUnchecked(st, r, path, methods, stackId, opts)
        n == Len(s.routers[r].stack)
    IN  IF n = Len(st.routers[r].stack) THEN s
        ELSE [s EXCEPT !.routers[r].stack = <<@[n]>> \o SubSeq(@, 1, n - 1)]

\* Router.prototype.register for one path: build the entry on the given
\* middleware array, prefix it, add the stored validators, push it
RegisterOne(st, r, path, methods, stackId, opts) ==
    IF st.threw # NoFailure THEN st
    ELSE IF LayerThrows(st.stacks[stackId]) THEN [st EXCEPT !.threw = "Error"]
    ELSE
    LET lid == Len(st.layers) + 1
        route == Layer(path, methods, stackId,
                       [end |-> opts.end, name |-> opts.name,
                        strict |-> opts.strict \/ st.routers[r].strict,
                        ignoreCaptures |-> opts.ignoreCaptures])
        s1 == [st EXCEPT !.layers = Append(st.layers, route)]
        s2 == IF st.routers[r].prefix # <<>>
              THEN LayerSetPrefix(s1, lid, st.routers[r].prefix) ELSE s1
        s3 == ApplyParams(s2, lid, s2.routers[r].params, 1)
    IN  IF s2.threw # NoFailure THEN [st EXCEPT !.threw = s2.threw]
        ELSE [s3 EXCEPT !.routers[r].stack = Append(s3.routers[r].stack, lid)]

\* Router.prototype.register with an array of paths: every path's entry is
\* built on the same middleware array
RECURSIVE RegisterPaths(_, _, _, _, _, _)
RegisterPaths(st, r, paths, methods, stackId, opts) ==
    IF paths = <<>> THEN st
    ELSE RegisterPaths(RegisterOne(st, r, Head(paths), methods, stackId, opts),
                       r, Tail(paths), methods, stackId, opts)

\* Router.prototype.register(paths, methods, middleware, opts): the caller's
\* middleware array becomes a stack array of the heap
RouterRegister(st, r, paths, methods, middleware, opts) ==
    LET stackId == Len(st.stacks) + 1
        s1 == [st EXCEPT !.stacks = Append(st.stacks, middleware)]
    IN  RegisterPaths(s1, r, paths, methods, stackId, opts)

RouteOpts(name) == [end |-> TRUE, name |-> name, strict |-> FALSE, ignoreCaptures |-> FALSE]

\* the arguments register gets from a verb shortcut called with (name, path,
\* middleware...).  A sequence of one path stands for a path given as a
\* string, a longer one for an array of paths.  The shortcut tells a name
\* from a path by typeof path === "string": with a name and an array it takes
\* the name for the path and the array for the first middleware
ShortcutArgs(name, paths, middleware) ==
    IF name # NoName /\ Len(paths) > 1
    THEN [paths |-> << <<name>> >>, middleware |-> <<NonCallable>> \o middleware,
          name |-> NoName]
    ELSE [paths |-> paths, middleware |-> middleware, name |-> name]

\* router.get / router.post / ...: register(path, [verb], middleware, {name})
RouterVerb(st, r, verb, name, paths, middleware) ==
    LET args == ShortcutArgs(name, paths, middleware)
    IN  RouterRegister(st, r, args.paths, <<verb>>, args.middleware, RouteOpts(args.name))

\* router.all: register(path, methods, middleware, {name})
RouterAll(st, r, name, paths, middleware) ==
    LET args == ShortcutArgs(name, paths, middleware)
    IN  RouterRegister(st, r, args.paths, HttpVerbs, args.middleware, RouteOpts(args.name))

\* this.params[param] = middleware on a map that keeps insertion order
SetParam(params, param, f) ==
    IF \E i \in 1..Len(params) : params[i].name = param
    THEN [i \in 1..Len(params) |->
             IF params[i].name = param THEN [name |-> param, fn |-> f] ELSE params[i]]
    ELSE Append(params, [name |-> param, fn |-> f])

\* route.param(param, fn) for every entry ids[i..]
RECURSIVE ParamAll(_, _, _, _, _)
ParamAll(st, ids, i, param, f) ==
    IF i > Len(ids) THEN st
    ELSE ParamAll(LayerParam(st, ids[i], param, f), ids, i + 1, param, f)

\* Router.prototype.param(param, middleware)
RouterParam(st, r, param, f) ==
    LET s1 == [st EXCEPT !.routers[r].params = SetParam(st.routers[r].params, param, f)]
    IN  ParamAll(s1, s1.routers[r].stack, 1, param, f)

\* prefix.replace(/\/$/, "")
StripTrailingSlash(prefix) ==
    IF prefix # <<>> /\ prefix[Len(prefix)] = Slash
    THEN SubSeq(prefix, 1, Len(prefix) - 1) ELSE prefix

RECURSIVE SetPrefixAll(_, _, _, _)
SetPrefixAll(st, ids, i, prefix) ==
    IF i > Len(ids) THEN st
    ELSE SetPrefixAll(LayerSetPrefix(st, ids[i], prefix), ids, i + 1, prefix)

\* Router.prototype.prefix(prefix)
RouterPrefix(st, r, prefix) ==
    LET p == StripTrailingSlash(prefix)
        s1 == [st EXCEPT !.routers[r].prefix = p]
    IN  SetPrefixAll(s1, s1.routers[r].stack, 1, p)

\* Router.prototype.use(path, m) for a plain middleware m: one method-less,
\* prefix-matching entry at the path, or at the catch-all when no path is given
RouterUsePlain(st, r, hasPath, path, m) ==
    LET prefix == st.routers[r].prefix
        routerPrefixHasParam == prefix # <<>> /\ Len(KeysOf(prefix)) > 0
    IN  RouterRegister(st, r, << IF path # <<>> THEN path ELSE <<CatchAll>> >>, <<>>, <<m>>,
                       [end |-> FALSE, name |-> NoName, strict |-> FALSE,
                        ignoreCaptures |-> ~hasPath /\ ~routerPrefixHasParam])

\* the copy Router.use makes of a nested entry: Object.assign onto a new
\* object copies the fields, so the copy refers to the same stack array
CloneLayer(nestedLayer) == nestedLayer

\* a mount that prefixes a copy by this registry's prefix before the mount path
RECURSIVE MountLayersPrefixFirst(_, _, _, _, _)
MountLayersPrefixFirst(acc, r, path, ids, j) ==
    IF j > Len(ids) \/ acc.st.threw # NoFailure THEN acc
    ELSE LET st == acc.st
             lid == Len(st.layers) + 1
             s1 == [st EXCEPT !.layers = Append(st.layers, CloneLayer(st.layers[ids[j]]))]
             s2 == IF s1.routers[r].prefix # <<>>
                   THEN LayerSetPrefix(s1, lid, s1.routers[r].prefix) ELSE s1
             s3 == IF path # <<>> THEN LayerSetPrefix(s2, lid, path) ELSE s2
             s4 == [s3 EXCEPT !.routers[r].stack = Append(s3.routers[r].stack, lid)]
         IN  IF s3.threw # NoFailure THEN [acc EXCEPT !.st.threw = s3.threw]
             ELSE MountLayersPrefixFirst([st |-> s4, clones |-> Append(acc.clones, lid)],
                                         r, path, ids, j + 1)

\* the loop of Router.use over the nested registry's entries ids[j..]:
\* copy, prefix by the mount path, prefix by this registry's prefix, push.
\* acc.st is the heap state, acc.clones the copies made so far; a setPrefix
\* that throws ends the loop, the copies pushed so far staying in the stack
RECURSIVE MountLayers(_, _, _, _, _)
MountLayers(acc, r, path, ids, j) ==
    IF j > Len(ids) \/ acc.st.threw # NoFailure THEN acc
    ELSE LET st == acc.st
             lid == Len(st.layers) + 1
             s1 == [st EXCEPT !.layers = Append(st.layers, CloneLayer(st.layers[ids[j]]))]
             s2 == IF path # <<>> THEN LayerSetPrefix(s1, lid, path) ELSE s1
             s3 == IF s2.routers[r].prefix # <<>>
                   THEN LayerSetPrefix(s2, lid, s2.routers[r].prefix) ELSE s2
             s4 == [s3 EXCEPT !.routers[r].stack = Append(s3.routers[r].stack, lid)]
         IN  IF s3.threw # NoFailure THEN [acc EXCEPT !.st.threw = s3.threw]
             ELSE MountLayers([st |-> s4, clones |-> Append(acc.clones, lid)],
                              r, path, ids, j + 1)

\* cloneRouter.param(key, router.params[key]) for the keys params[i..]: the
\* copy of the nested registry shares the nested registry's params object,
\* and its stack holds the copies
RECURSIVE MountParams(_, _, _, _, _)
MountParams(st, nested, clones, params, i) ==
    IF i > Len(params) \/ st.threw # NoFailure THEN st
    ELSE LET s1 == [st EXCEPT !.routers[nested].params =
                        SetParam(st.routers[nested].params, params[i].name, params[i].fn)]
             s2 == ParamAll(s1, clones, 1, params[i].name, params[i].fn)
         IN  MountParams(s2, nested, clones, params, i + 1)

\* Router.prototype.use(path, m) for m the dispatcher of the registry `nested`
RouterUseRouter(st, r, path, nested) ==
    LET merged == MountLayers([st |-> st, clones |-> <<>>], r, path,
                              st.routers[nested].stack, 1)
    IN  MountParams(merged.st, nested, merged.clones, merged.st.routers[r].params, 1)

\* Router.prototype.use with an array of paths: one use per path, in order
RECURSIVE RouterUseRouterPaths(_, _, _, _)
RouterUseRouterPaths(st, r, paths, nested) ==
    IF paths = <<>> \/ st.threw # NoFailure THEN st
    ELSE RouterUseRouterPaths(RouterUseRouter(st, r, Head(paths), nested),
                              r, Tail(paths), nested)

\* a scan that takes any path and method match for a route
RECURSIVE MatchScanAnyRoute(_, _, _, _, _, _)
MatchScanAnyRoute(st, ids, i, path, method, matched) ==
    IF i > Len(ids) THEN matched
    ELSE LET layer == st.layers[ids[i]]
             hit == LayerMatch(layer, path)
             m1 == IF hit
                   THEN [matched EXCEPT !.path = Append(@, ids[i])] ELSE matched
             m2 == IF hit
                      /\ (Len(layer.methods) = 0 \/ IndexOf(layer.methods, method) > 0)
                   THEN [m1 EXCEPT !.pathAndMethod = Append(@, ids[i]), !.route = TRUE]
                   ELSE m1
         IN  MatchScanAnyRoute(st, ids, i + 1, path, method, m2)

\* Router.prototype.match(path, method): one scan over the entries ids[i..]
RECURSIVE MatchScan(_, _, _, _, _, _)
MatchScan(st, ids, i, path, method, matched) ==
    IF i > Len(ids) THEN matched
    ELSE LET layer == st.layers[ids[i]]
             hit == LayerMatch(layer, path)
             m1 == IF hit
                   THEN [matched EXCEPT !.path = Append(@, ids[i])] ELSE matched
             m2 == IF hit
                      /\ (Len(layer.methods) = 0 \/ IndexOf(layer.methods, method) > 0)
                   THEN [m1 EXCEPT !.pathAndMethod = Append(@, ids[i]),
                                   !.route = @ \/ Len(layer.methods) > 0]
                   ELSE m1
         IN  MatchScan(st, ids, i + 1, path, method, m2)

RouterMatch(st, r, path, method) ==
    MatchScan(st, st.routers[r].stack, 1, path, method,
              [path |-> <<>>, pathAndMethod |-> <<>>, route |-> FALSE])

\* a lookup that returns the last entry with the name
RouterRouteLast(st, r, name) ==
    LET routes == st.routers[r].stack
        hit(i) == st.layers[routes[i]].name # NoName /\ st.layers[routes[i]].name = name
    IN  IF \E i \in 1..Len(routes) : hit(i)
        THEN routes[CHOOSE i \in 1..Len(routes) : hit(i) /\ \A j \in (i+1)..Len(routes) : ~hit(j)]
        ELSE 0

\* Router.prototype.route(name): the first entry that has a name and whose
\* name is the given one; 0 stands for the false it returns otherwise
RouterRoute(st, r, name) ==
    LET routes == st.routers[r].stack
        hit(i) == st.layers[routes[i]].name # NoName /\ st.layers[routes[i]].name = name
    IN  IF \E i \in 1..Len(routes) : hit(i)
        THEN routes[CHOOSE i \in 1..Len(routes) : hit(i) /\ \A j \in 1..(i-1) : ~hit(j)]
        ELSE 0

\* the replace object Layer.url builds from positional arguments: the j-th
\* named key of the pattern gets args[j], a later key of the same name
\* overwriting an earlier one; the unnamed group, whose name 0 is falsy,
\* takes no argument and has no value; "" stands for undefined
Undefined == ""
UrlReplace(keys, args, n) ==
    LET named == SelectSeq(keys, LAMBDA k : k # "0")
        at == { j \in 1..Len(named) : named[j] = n }
        last == CHOOSE j \in at : \A k \in at : k <= j
    IN  IF at # {} /\ last <= Len(args) THEN args[last] ELSE Undefined

\* toPath(replace): the pattern with every key's token replaced by its value
RECURSIVE ToPath(_, _, _)
ToPath(path, keys, args) ==
    IF path = <<>> THEN <<>>
    ELSE LET t == Head(path)
         IN  IF PatternedKey(path, 1)
             THEN <<UrlReplace(keys, args, ParamNameOf[t])>>
                  \o ToPath(SubSeq(path, 3, Len(path)), keys, args)
             ELSE (IF t \in ParamToks THEN <<UrlReplace(keys, args, ParamNameOf[t])>>
                   ELSE IF t = CatchAll THEN <<UrlReplace(keys, args, "0")>>
                   ELSE <<t>>) \o ToPath(Tail(path), keys, args)

\* Layer.prototype.url with positional arguments and no options: toPath
\* throws TypeError when a key has no value
LayerUrl(layer, args) ==
    LET keys == KeysOf(layer.path)
    IN  IF layer.path = <<ErrorObject>> \/ CompileThrows(layer.path)
           \/ \E j \in 1..Len(keys) : UrlReplace(keys, args, keys[j]) = Undefined
        THEN [threw |-> "TypeError", error |-> NoFailure, url |-> <<>>]
        ELSE [threw |-> NoFailure, error |-> NoFailure, url |-> ToPath(layer.path, keys, args)]

\* Router.prototype.url(name, args...): the entry's URL, or an Error object
\* as the return value when no entry has the name
RouterUrl(st, r, name, args) ==
    LET route == RouterRoute(st, r, name)
    IN  IF route # 0 THEN LayerUrl(st.layers[route], args)
        ELSE [threw |-> NoFailure, error |-> "No route found for name", url |-> <<>>]

\* the handler Router.redirect registers
RedirectFn == "(redirect)"
RedirectHandler(destination, code) ==
    [Mw(RedirectFn) EXCEPT !.destination = destination, !.code = code]

\* this.url(s) as Router.redirect uses it for a source or a destination
\* that is a route name: the entry's URL without arguments, the Error object
\* url returns when no entry has the name, or the TypeError of Layer.url
ResolveName(st, r, s) ==
    LET u == RouterUrl(st, r, Join(s, 1, Len(s)), <<>>)
    IN  [threw |-> u.threw,
         value |-> IF u.threw # NoFailure THEN <<>>
                   ELSE IF u.error # NoFailure THEN <<ErrorObject>>
                   ELSE u.url]

\* Router.prototype.redirect(source, destination, code)
RouterRedirect(st, r, source, destination, code) ==
    LET given(s) == [threw |-> NoFailure, value |-> s]
        src == IF source # <<>> /\ source[1] = Slash THEN given(source)
               ELSE ResolveName(st, r, source)
        dst == IF \/ destination # <<>> /\ destination[1] = Slash
                  \/ \E i \in 1..Len(destination) : destination[i] = "://"
               THEN given(destination)
               ELSE ResolveName(st, r, destination)
    IN  IF src.threw # NoFailure THEN [st EXCEPT !.threw = src.threw]
        ELSE IF dst.threw # NoFailure THEN [st EXCEPT !.threw = dst.threw]
        ELSE RouterAll(st, r, NoName, <<src.value>>, <<RedirectHandler(dst.value, code)>>)

----------------------------------------------------------------------------
(* Serving a request *)

Unset == 0
NoPath == <<>>
NoParams == <<>>

\* decodeURIComponent on the segment values of the model: a well-formed
\* escape is decoded, a malformed one makes it throw URIError
DecodeURIComponent(text) ==
    CASE text = "%41" -> [threw |-> NoFailure, value |-> "A"]
      [] text = "%" -> [threw |-> "URIError", value |-> ""]
      [] OTHER -> [threw |-> NoFailure, value |-> text]

\* a decoder that hands the failure to its caller as the value
DecodeOrFail(text) ==
    DecodeURIComponent(text).value

\* safeDecodeURIComponent: decodeURIComponent inside try/catch; the catch
\* returns the text as it is
SafeDecodeURIComponent(text) ==
    IF DecodeURIComponent(text).threw = NoFailure
    THEN DecodeURIComponent(text).value
    ELSE text

\* Layer.prototype.captures
LayerCaptures(layer, path) ==
    IF layer.opts.ignoreCaptures THEN <<>>
    ELSE RegexpCaptures(layer.regexp, layer.opts, path)

\* a params that starts from an empty map whatever map it is given
RECURSIVE LayerParamsFresh(_, _, _, _)
LayerParamsFresh(layer, captures, i, params) ==
    IF i > Len(captures) THEN (IF i = 1 THEN NoParams ELSE params)
    ELSE LET c == captures[i]
             name == layer.paramNames[i]
             base == IF i = 1 THEN NoParams ELSE params
             p1 == IF i <= Len(layer.paramNames) /\ c # ""
                   THEN [n \in (DOMAIN base) \cup {name} |->
                            IF n = name THEN SafeDecodeURIComponent(c) ELSE base[n]]
                   ELSE base
         IN  LayerParamsFresh(layer, captures, i + 1, p1)

\* Layer.prototype.params: write the non-empty captures captures[i..] that
\* have a key into the existing map
RECURSIVE LayerParams(_, _, _, _)
LayerParams(layer, captures, i, params) ==
    IF i > Len(captures) THEN params
    ELSE LET c == captures[i]
             name == layer.paramNames[i]
             p1 == IF i <= Len(layer.paramNames) /\ c # ""
                   THEN [n \in (DOMAIN params) \cup {name} |->
                            IF n = name THEN SafeDecodeURIComponent(c) ELSE params[n]]
                   ELSE params
         IN  LayerParams(layer, captures, i + 1, p1)

\* the options of allowedMethods: throw, and the values the functions
\* notImplemented and methodNotAllowed return (NoFailure: no function given)
GuardOptions(throw, notImplemented, methodNotAllowed) ==
    [throw |-> throw, notImplemented |-> notImplemented, methodNotAllowed |-> methodNotAllowed]
NoOptions == GuardOptions(FALSE, NoFailure, NoFailure)

\* the steps of a pipeline
RoutesStep(r) ==
    [kind |-> "routes", r |-> r, layer |-> 0, path |-> NoPath, mw |-> Mw(""),
     options |-> NoOptions]
GuardStep(r, options) ==
    [kind |-> "allowed", r |-> r, layer |-> 0, path |-> NoPath, mw |-> Mw(""),
     options |-> options]
BinderStep(r, lid, path) ==
    [kind |-> "binder", r |-> r, layer |-> lid, path |-> path, mw |-> Mw(""),
     options |-> NoOptions]
MwStep(r, lid, mw) ==
    [kind |-> "mw", r |-> r, layer |-> lid, path |-> NoPath, mw |-> mw,
     options |-> NoOptions]
NextStep(r) ==
    [kind |-> "next", r |-> r, layer |-> 0, path |-> NoPath, mw |-> Mw(""),
     options |-> NoOptions]

\* a binder that starts the parameter map afresh
BinderOwnParams(c, layer, path) ==
    LET captures == LayerCaptures(layer, path)
    IN  [c EXCEPT !.captures = captures,
                  !.params = LayerParams(layer, captures, 1, NoParams),
                  !.routerPath = layer.path,
                  !.routerName = layer.name,
                  !.matchedRoute = layer.path,
                  !.matchedRouteName = IF layer.name # NoName THEN layer.name ELSE @]

\* the step the dispatcher emits first for a matched entry
Binder(c, layer, path) ==
    LET captures == LayerCaptures(layer, path)
    IN  [c EXCEPT !.captures = captures,
                  !.params = LayerParams(layer, captures, 1, c.params),
                  !.routerPath = layer.path,
                  !.routerName = layer.name,
                  !.matchedRoute = layer.path,
                  !.matchedRouteName = IF layer.name # NoName THEN layer.name ELSE @]

\* a chain that runs an entry's stack ahead of its binder
RECURSIVE LayerChainStackFirst(_, _, _, _, _)
LayerChainStackFirst(st, r, ids, i, path) ==
    IF i > Len(ids) THEN <<>>
    ELSE LET stack == st.stacks[st.layers[ids[i]].stack]
         IN  [k \in 1..Len(stack) |-> MwStep(r, ids[i], stack[k])]
             \o <<BinderStep(r, ids[i], path)>>
             \o LayerChainStackFirst(st, r, ids, i + 1, path)

\* matchedLayers.reduce: for every matched entry its binder, then its stack
RECURSIVE LayerChain(_, _, _, _, _)
LayerChain(st, r, ids, i, path) ==
    IF i > Len(ids) THEN <<>>
    ELSE LET stack == st.stacks[st.layers[ids[i]].stack]
         IN  <<BinderStep(r, ids[i], path)>>
             \o [k \in 1..Len(stack) |-> MwStep(r, ids[i], stack[k])]
             \o LayerChain(st, r, ids, i + 1, path)

\* the lookup path of dispatch
LookupPath(st, r, c) ==
    IF st.routers[r].routerPath # NoPath THEN st.routers[r].routerPath
    ELSE IF c.routerPath # NoPath THEN c.routerPath
    ELSE c.path

\* a dispatch that replaces the accumulator by its own path matches
DispatchCtxReplace(st, r, c) ==
    LET path == LookupPath(st, r, c)
        matched == RouterMatch(st, r, path, c.method)
        c1 == [c EXCEPT !.matched = matched.path,
                        !.hasMatched = TRUE,
                        !.router = r]
        most == st.layers[matched.pathAndMethod[Len(matched.pathAndMethod)]]
    IN  IF ~matched.route THEN c1
        ELSE [c1 EXCEPT !.matchedRoute = most.path,
                        !.matchedRouteName = IF most.name # NoName THEN most.name ELSE @]

\* dispatch(ctx, next) up to the call of compose: the context it leaves
DispatchCtx(st, r, c) ==
    LET path == LookupPath(st, r, c)
        matched == RouterMatch(st, r, path, c.method)
        c1 == [c EXCEPT !.matched = IF c.hasMatched THEN @ \o matched.path ELSE matched.path,
                        !.hasMatched = TRUE,
                        !.router = r]
        most == st.layers[matched.pathAndMethod[Len(matched.pathAndMethod)]]
    IN  IF ~matched.route THEN c1
        ELSE [c1 EXCEPT !.matchedRoute = most.path,
                        !.matchedRouteName = IF most.name # NoName THEN most.name ELSE @]

\* a dispatcher that runs the chain of whatever matched path and method
DispatchChainAlways(st, r, c) ==
    LET path == LookupPath(st, r, c)
        matched == RouterMatch(st, r, path, c.method)
    IN  LayerChain(st, r, matched.pathAndMethod, 1, path) \o <<NextStep(r)>>

\* dispatch(ctx, next): the steps it puts in front of next
DispatchChain(st, r, c) ==
    LET path == LookupPath(st, r, c)
        matched == RouterMatch(st, r, path, c.method)
    IN  IF ~matched.route THEN <<NextStep(r)>>
        ELSE LayerChain(st, r, matched.pathAndMethod, 1, path) \o <<NextStep(r)>>

\* the keys of an object after its keys were written in the order of the
\* sequence: every key once, at the place where it was first written
KeysWritten(all) ==
    LET at == [i \in 1..Len(all) |-> [i |-> i, key |-> all[i]]]
        first == SelectSeq(at, LAMBDA e : IndexOf(all, e.key) = e.i)
    IN  [k \in 1..Len(first) |-> first[k].key]

\* a union that puts each newly seen method in front
AddMethodsFront(acc, methods) ==
    LET keys == KeysWritten(acc \o methods)
        n == Len(keys) - Len(acc)
    IN  [k \in 1..n |-> keys[Len(keys) + 1 - k]] \o acc

\* the union the guard builds in the allowed object (allowed[method] =
\* method for the methods of one more entry): Object.keys keeps the order in
\* which the methods were first written
AddMethods(acc, methods) == KeysWritten(acc \o methods)

\* a union that scans the accumulator back to front
RECURSIVE AllowedArrBackward(_, _, _, _)
AllowedArrBackward(st, matched, i, acc) ==
    IF i > Len(matched) THEN acc
    ELSE AllowedArrBackward(st, matched, i + 1,
                            AddMethods(acc, st.layers[matched[Len(matched) + 1 - i]].methods))

\* the two loops of the guard over ctx.matched[i..] and each entry's methods
RECURSIVE AllowedArr(_, _, _, _)
AllowedArr(st, matched, i, acc) ==
    IF i > Len(matched) THEN acc
    ELSE AllowedArr(st, matched, i + 1, AddMethods(acc, st.layers[matched[i]].methods))

\* a guard that in throw mode also fails for OPTIONS
GuardAfterOptionsThrows(st, r, c, options) ==
    LET allowedArr == AllowedArr(st, c.matched, 1, <<>>)
        respond(status) == [c EXCEPT !.status = status, !.allow = allowedArr, !.allowSet = TRUE]
        same == [ctx |-> c, failure |-> NoFailure]
    IN  IF ~(c.status = Unset \/ c.status = 404) THEN same
        ELSE IF ~c.hasMatched THEN [ctx |-> c, failure |-> "TypeError"]
        ELSE IF IndexOf(st.routers[r].methods, c.method) = 0
        THEN IF options.throw
             THEN [ctx |-> c,
                   failure |-> IF options.notImplemented # NoFailure
                               THEN options.notImplemented ELSE "NotImplemented"]
             ELSE [ctx |-> respond(501), failure |-> NoFailure]
        ELSE IF Len(allowedArr) > 0
        THEN IF c.method = "OPTIONS"
             THEN IF options.throw THEN [ctx |-> c, failure |-> "MethodNotAllowed"]
                  ELSE [ctx |-> [respond(200) EXCEPT !.body = ""], failure |-> NoFailure]
             ELSE IF IndexOf(allowedArr, c.method) = 0
             THEN IF options.throw
                  THEN [ctx |-> c,
                        failure |-> IF options.methodNotAllowed # NoFailure
                                    THEN options.methodNotAllowed ELSE "MethodNotAllowed"]
                  ELSE [ctx |-> respond(405), failure |-> NoFailure]
             ELSE same
        ELSE same

\* the guard's work after downstream has completed, for the guard made by
\* registry r: the outcome is the context and the failure raised.  With the
\* status unset or 404 the loop reads ctx.matched.length, which throws a
\* TypeError when no dispatcher has created the accumulator; implemented is
\* the method list of r
GuardAfter(st, r, c, options) ==
    LET allowedArr == AllowedArr(st, c.matched, 1, <<>>)
        respond(status) == [c EXCEPT !.status = status, !.allow = allowedArr, !.allowSet = TRUE]
        same == [ctx |-> c, failure |-> NoFailure]
    IN  IF ~(c.status = Unset \/ c.status = 404) THEN same
        ELSE IF ~c.hasMatched THEN [ctx |-> c, failure |-> "TypeError"]
        ELSE IF IndexOf(st.routers[r].methods, c.method) = 0
        THEN IF options.throw
             THEN [ctx |-> c,
                   failure |-> IF options.notImplemented # NoFailure
                               THEN options.notImplemented ELSE "NotImplemented"]
             ELSE [ctx |-> respond(501), failure |-> NoFailure]
        ELSE IF Len(allowedArr) > 0
        THEN IF c.method = "OPTIONS"
             THEN [ctx |-> [respond(200) EXCEPT !.body = ""], failure |-> NoFailure]
             ELSE IF IndexOf(allowedArr, c.method) = 0
             THEN IF options.throw
                  THEN [ctx |-> c,
                        failure |-> IF options.methodNotAllowed # NoFailure
                                    THEN options.methodNotAllowed ELSE "MethodNotAllowed"]
                  ELSE [ctx |-> respond(405), failure |-> NoFailure]
             ELSE same
        ELSE same

----------------------------------------------------------------------------
(* The state machine *)

Routers == {"A", "B"}

\* new Router(): methods is opts.methods || the default list
NewRouter ==
    [prefix |-> NoPath, strict |-> FALSE, routerPath |-> NoPath, params |-> <<>>,
     stack |-> <<>>, methods |-> Implemented]

\* new Router({prefix, strict})
RouterWith(prefix, strict) == [NewRouter EXCEPT !.prefix = prefix, !.strict = strict]

\* new Router({methods})
RouterImplementing(methods) == [NewRouter EXCEPT !.methods = methods]

\* the context Koa hands to the pipeline
NewCtx(method, path, status) ==
    [ method |-> method, path |-> path, status |-> status,
      params |-> NoParams, captures |-> <<>>,
      routerPath |-> NoPath, routerName |-> NoName, router |-> "",
      matched |-> <<>>, hasMatched |-> FALSE,
      matchedRoute |-> NoPath, matchedRouteName |-> NoName,
      allow |-> <<>>, allowSet |-> FALSE, body |-> "(unset)", location |-> NoPath ]

Idle ==
    [pc |-> "idle", todo |-> <<>>, post |-> <<>>, ran |-> <<>>, failure |-> NoFailure,
     given |-> NoParams]

\* what a call threw, or the error value or the URL it returned
NoResult == [threw |-> NoFailure, error |-> NoFailure, url |-> NoPath]

Init ==
    /\ routers = [r \in Routers |-> NewRouter]
    /\ layers = <<>>
    /\ stacks = <<>>
    /\ nOps = 0
    /\ result = NoResult
    /\ ctx = NewCtx("GET", RootPath, Unset)
    /\ exec = Idle

\* a configuration call leaves the heap state st; it may come at any time,
\* before, between and during requests
Configure(st) ==
    /\ nOps < MaxOps
    /\ Len(st.layers) <= MaxLayers
    /\ routers' = st.routers
    /\ layers' = st.layers
    /\ stacks' = st.stacks
    /\ nOps' = nOps + 1
    /\ result' = [NoResult EXCEPT !.threw = st.threw]
    /\ UNCHANGED reqVars

CfgVerb(r, verb, name, paths, middleware) ==
    Configure(RouterVerb(St, r, verb, name, paths, middleware))

CfgAll(r, name, paths, middleware) ==
    Configure(RouterAll(St, r, name, paths, middleware))

CfgUse(r, hasPath, path, m) ==
    Configure(RouterUsePlain(St, r, hasPath, path, Mw(m)))

CfgMount(r, paths, nested) ==
    Configure(RouterUseRouterPaths(St, r, paths, nested))

CfgPrefix(r, prefix) ==
    Configure(RouterPrefix(St, r, prefix))

CfgRedirect(r, source, destination, code) ==
    Configure(RouterRedirect(St, r, source, destination, code))

CfgParam(r, param, f) ==
    Configure(RouterParam(St, r, param, f))

\* router.url(name, args...): a call that returns a value and changes nothing
CfgUrl(r, name, args) ==
    /\ nOps < MaxOps
    /\ nOps' = nOps + 1
    /\ result' = RouterUrl(St, r, name, args)
    /\ UNCHANGED <<routers, layers, stacks, reqVars>>

\* a request enters the application's pipeline; a handler ahead of the
\* pipeline may have put parameters on the context
RequestWith(method, path, status, params, pipeline) ==
    /\ exec.pc \in {"idle", "done", "failed"}
    /\ ctx' = [NewCtx(method, path, status) EXCEPT !.params = params]
    /\ exec' = [pc |-> "run", todo |-> pipeline, post |-> <<>>, ran |-> <<>>,
                failure |-> NoFailure, given |-> params]
    /\ UNCHANGED cfgVars

Request(method, path, status, pipeline) ==
    RequestWith(method, path, status, NoParams, pipeline)

Running(kinds) ==
    /\ exec.pc = "run"
    /\ exec.todo # <<>>
    /\ Head(exec.todo).kind \in kinds

\* the dispatcher runs: match, record the path matches, build the chain
StepRoutes ==
    /\ Running({"routes"})
    /\ LET step == Head(exec.todo)
       IN  /\ ctx' = DispatchCtx(St, step.r, ctx)
           /\ exec' = [exec EXCEPT !.todo = DispatchChain(St, step.r, ctx) \o Tail(@),
                                   !.ran = Append(@, step)]
    /\ UNCHANGED cfgVars

\* does layer.captures(path) throw?  path.match is no function when the
\* path is the Error object, and gives null when the entry, prefixed since
\* the dispatcher matched it, no longer matches the path
CapturesThrow(layer, path) ==
    /\ ~layer.opts.ignoreCaptures
    /\ (path = <<ErrorObject>> \/ ~LayerMatch(layer, path))

\* the binder step of a matched entry runs and continues; it reads the
\* entry as it is now
StepBinder ==
    /\ Running({"binder"})
    /\ LET step == Head(exec.todo)
       IN  IF CapturesThrow(layers[step.layer], step.path)
           THEN /\ exec' = [exec EXCEPT !.pc = "failed", !.todo = <<>>, !.post = <<>>,
                                        !.ran = Append(@, step),
                                        !.failure = "TypeError"]
                /\ ctx' = ctx
           ELSE /\ ctx' = Binder(ctx, layers[step.layer], step.path)
                /\ exec' = [exec EXCEPT !.todo = Tail(@), !.ran = Append(@, step)]
    /\ UNCHANGED cfgVars

\* a chain that catches what a middleware throws and reports its own error
StepMwCaught(outcome) ==
    /\ Running({"mw"})
    /\ Head(exec.todo).mw.fn # RedirectFn
    /\ LET step == Head(exec.todo)
       IN  IF outcome = "throw"
           THEN /\ exec' = [exec EXCEPT !.pc = "failed", !.todo = <<>>, !.post = <<>>,
                                        !.ran = Append(@, step),
                                        !.failure = "Error"]
                /\ ctx' = ctx
           ELSE /\ exec' = [exec EXCEPT !.todo = IF outcome = "next" THEN Tail(@) ELSE <<>>,
                                        !.ran = Append(@, step)]
                /\ ctx' = IF outcome = "respond"
                          THEN [ctx EXCEPT !.status = 200, !.body = step.mw.fn]
                          ELSE ctx
    /\ UNCHANGED cfgVars

\* a middleware of a matched entry runs.  The handler of Router.redirect
\* calls ctx.redirect(destination), sets the status and does not continue;
\* what any other middleware does is its own business: it continues,
\* returns without continuing, responds, or fails
StepMw(outcome) ==
    /\ Running({"mw"})
    /\ LET step == Head(exec.todo)
       IN  IF step.mw.fn = RedirectFn
           THEN /\ outcome = "stop"
                /\ exec' = [exec EXCEPT !.todo = <<>>, !.ran = Append(@, step)]
                /\ ctx' = [ctx EXCEPT !.location = step.mw.destination,
                                      !.status = IF step.mw.code # 0
                                                 THEN step.mw.code ELSE 301]
           ELSE CASE outcome = "next" ->
                  /\ exec' = [exec EXCEPT !.todo = Tail(@), !.ran = Append(@, step)]
                  /\ ctx' = ctx
             [] outcome = "stop" ->
                  /\ exec' = [exec EXCEPT !.todo = <<>>, !.ran = Append(@, step)]
                  /\ ctx' = ctx
             [] outcome = "respond" ->
                  /\ exec' = [exec EXCEPT !.todo = <<>>, !.ran = Append(@, step)]
                  /\ ctx' = [ctx EXCEPT !.status = 200, !.body = step.mw.fn]
             [] outcome = "throw" ->
                  /\ exec' = [exec EXCEPT !.pc = "failed", !.todo = <<>>, !.post = <<>>,
                                          !.ran = Append(@, step),
                                          !.failure = step.mw.fn]
                  /\ ctx' = ctx
    /\ UNCHANGED cfgVars

\* control reaches the handler that follows the dispatcher
StepNext ==
    /\ Running({"next"})
    /\ exec' = [exec EXCEPT !.todo = Tail(@), !.ran = Append(@, Head(exec.todo))]
    /\ UNCHANGED <<ctx, cfgVars>>

\* the guard is entered: it calls next() and waits for downstream
StepGuard ==
    /\ Running({"allowed"})
    /\ exec' = [exec EXCEPT !.todo = Tail(@), !.post = <<Head(exec.todo)>> \o @]
    /\ UNCHANGED <<ctx, cfgVars>>

\* downstream has completed: the innermost waiting guard does its work
Unwind ==
    /\ exec.pc = "run"
    /\ exec.todo = <<>>
    /\ exec.post # <<>>
    /\ LET g == Head(exec.post)
           res == GuardAfter(St, g.r, ctx, g.options)
       IN  IF res.failure # NoFailure
           THEN /\ exec' = [exec EXCEPT !.pc = "failed", !.post = <<>>,
                                        !.failure = res.failure]
                /\ ctx' = ctx
           ELSE /\ exec' = [exec EXCEPT !.post = Tail(@), !.ran = Append(@, g)]
                /\ ctx' = res.ctx
    /\ UNCHANGED cfgVars

Finish ==
    /\ exec.pc = "run"
    /\ exec.todo = <<>>
    /\ exec.post = <<>>
    /\ exec' = [exec EXCEPT !.pc = "done"]
    /\ UNCHANGED <<ctx, cfgVars>>

----------------------------------------------------------------------------
(* Inputs of the configuration phase *)

P(x) == <<Slash, x>>

VerbInputs == {"get", "post"}
PathInputs == { <<P("x")>>, <<P(":a")>>, <<P(":a") \o P(":b"), P(":b") \o P(":a")>> }
MountInputs == { <<P("m") \o P(":b")>>, <<NoPath>>, <<P("m"), P("k")>> }
PrefixInputs == { P("p") \o <<Slash>>, P(":b") }

\* the configuration calls on registry r
RegisterOn(r) ==
    \/ \E verb \in VerbInputs, paths \in PathInputs :
          CfgVerb(r, verb, NoName, paths, <<Mw("h1")>>)
    \/ CfgAll(r, NoName, <<P("x")>>, <<Mw("h1")>>)

ParamOn(r) ==
    \E param \in ParamNamesAll : CfgParam(r, param, "v1")

ConfigOn(r) ==
    \/ RegisterOn(r)
    \/ ParamOn(r)
    \/ \E path \in {NoPath, P("x")} : r = "A" /\ CfgUse(r, path # NoPath, path, "u1")
    \/ \E paths \in MountInputs : r = "A" /\ CfgMount(r, paths, "B")
    \/ \E prefix \in PrefixInputs : CfgPrefix(r, prefix)

Next == \E r \in Routers : ConfigOn(r)

Spec == Init /\ [][Next]_vars

----------------------------------------------------------------------------
(* Configuration followed by serving.  The application is the one of       *)
(* src/unnamed/part_000: app.use(router.routes()).use(router.allowedMethods()) *)
(* It registers its routes before it listens: its configuration calls come *)
(* while no request has been served (exec.pc = "idle").  The registry      *)
(* itself accepts a call at any time; SpecLifecycle below has calls        *)
(* between and during requests.                                            *)

ServeMethods == {"GET", "PUT", "OPTIONS", "PROPFIND"}
ServePaths == { P("x"), P("m") \o P("1") \o P("2"), P("m") \o P("1") }
ServePipelines == { <<RoutesStep("A"), GuardStep("A", NoOptions)>> }
Outcomes == {"next", "stop", "respond", "throw"}

ServeConfig ==
    /\ exec.pc = "idle"
    /\ nOps < MaxServeOps
    /\ \/ \E name \in {NoName, "n1"}, path \in {P("x"), P(":a")} :
             CfgVerb("A", "get", name, <<path>>, <<Mw("h1")>>)
       \/ CfgVerb("A", "post", NoName, <<P("x")>>, <<Mw("h2")>>)
       \/ CfgAll("A", NoName, <<P("x")>>, <<Mw("h1")>>)
       \/ CfgUse("A", TRUE, P("x"), "u1")
       \/ CfgMount("A", <<P("m") \o P(":b")>>, "B")
       \/ CfgParam("A", "b", "v1")
       \/ \E path \in {RootPath, P(":a")} :
             CfgVerb("B", "get", NoName, <<path>>, <<Mw("h2")>>)

\* the steps of the pipeline of the request being served
Run ==
    \/ StepRoutes
    \/ StepBinder
    \/ \E outcome \in Outcomes : StepMw(outcome)
    \/ StepNext
    \/ StepGuard
    \/ Unwind
    \/ Finish

Serve ==
    \/ \E method \in ServeMethods, path \in ServePaths, status \in {Unset, 404},
          pipeline \in ServePipelines : Request(method, path, status, pipeline)
    \/ Run

NextServe == ServeConfig \/ Serve

SpecServe == Init /\ [][NextServe]_vars

\* only register and addParamValidator calls
NextRegisterParam == \E r \in Routers : RegisterOn(r) \/ ParamOn(r)

SpecRegisterParam == Init /\ [][NextRegisterParam]_vars

----------------------------------------------------------------------------
(* Properties of the configuration phase *)

Has(s, x) == IndexOf(s, x) > 0
EntryIds == 1..Len(layers)
StackOf(lid) == stacks[layers[lid].stack]

\* C1: every entry whose method set contains GET also contains HEAD, on the
\* same entry: a per-verb registration of GET appends one entry per path
\* and that entry carries both
C1_GetImpliesHead ==
    [][ /\ \A lid \in 1..Len(layers') :
              Has(layers'[lid].methods, "GET") => Has(layers'[lid].methods, "HEAD")
        /\ \A r \in Routers, paths \in PathInputs :
              CfgVerb(r, "get", NoName, paths, <<Mw("h1")>>) =>
                 /\ Len(layers') = Len(layers) + Len(paths)
                 /\ Len(routers'[r].stack) = Len(routers[r].stack) + Len(paths)
                 /\ \A k \in 1..Len(paths) :
                       LET lid == routers'[r].stack[Len(routers[r].stack) + k]
                       IN  /\ lid = Len(layers) + k
                           /\ Has(layers'[lid].methods, "GET")
                           /\ Has(layers'[lid].methods, "HEAD")
      ]_vars

C1_Witness ==
    \E r \in Routers : \E i \in 1..Len(routers[r].stack) :
        /\ layers[routers[r].stack[i]].methods = <<"HEAD", "GET">>
        /\ nOps = 1
        /\ Len(layers) = 1

\* the requests the properties of match quantify over
MatchMethods == {"GET", "POST", "PUT"}
MatchPaths ==
    { P("x"), P("x") \o <<Slash>>, P("1") \o P("2"), P("m") \o P("1") \o P("x"),
      P("p") \o P("x") }

PathMatches(lid, path) == LayerMatch(layers[lid], path)
MethodMatches(lid, method) ==
    Len(layers[lid].methods) = 0 \/ Has(layers[lid].methods, method)

\* C2: match returns the entries whose pattern matches, in registration
\* order; of those, in the same order, the ones whose method set is empty or
\* holds the method; and exactRouteFound iff one of the latter has a
\* non-empty method set
C2_Match ==
    \A r \in Routers, path \in MatchPaths, method \in MatchMethods :
        LET m == RouterMatch(St, r, path, method)
            byPath(lid) == PathMatches(lid, path)
            byMethod(lid) == MethodMatches(lid, method)
        IN  /\ m.path = SelectSeq(routers[r].stack, byPath)
            /\ m.pathAndMethod = SelectSeq(m.path, byMethod)
            /\ m.route <=> \E i \in 1..Len(m.pathAndMethod) :
                              Len(layers[m.pathAndMethod[i]].methods) > 0

C2_Witness ==
    \E r \in Routers, path \in MatchPaths, method \in MatchMethods :
        LET m == RouterMatch(St, r, path, method)
        IN  /\ Len(m.path) = 3
            /\ Len(m.pathAndMethod) = 2
            /\ Len(routers[r].stack) >= 3
            /\ m.route
            /\ \E i \in 1..2 : Len(layers[m.pathAndMethod[i]].methods) = 0

\* the validator wrappers of a stack and the rest
IsWrapper(mw) == mw.param # NoParam
WrapperBlockLen(stack) ==
    IF \E i \in 1..Len(stack) : ~IsWrapper(stack[i])
    THEN (CHOOSE i \in 1..Len(stack) :
              ~IsWrapper(stack[i]) /\ \A j \in 1..(i-1) : IsWrapper(stack[j])) - 1
    ELSE Len(stack)

\* C7: in every entry's stack the validator wrappers are a block at the
\* front, ahead of the entry's own middleware, in the order of their
\* parameters in the entry's pattern
C7_ValidatorsInPatternOrder ==
    \A lid \in EntryIds :
        LET stack == StackOf(lid)
            names == layers[lid].paramNames
            n == WrapperBlockLen(stack)
        IN  /\ \A i \in (n+1)..Len(stack) : ~IsWrapper(stack[i])
            /\ \A i, j \in 1..n :
                  i < j => IndexOf(names, stack[i].param) <= IndexOf(names, stack[j].param)

\* C8: an entry of a registry whose pattern has a parameter for which the
\* registry stores a validator has a wrapper for it in its stack
StoresValidator(r, p) == \E i \in 1..Len(routers[r].params) : routers[r].params[i].name = p

C8_StoredValidatorsApplied ==
    \A r \in Routers : \A i \in 1..Len(routers[r].stack) :
        LET lid == routers[r].stack[i]
        IN  \A p \in Range(layers[lid].paramNames) :
                StoresValidator(r, p) =>
                    \E k \in 1..Len(StackOf(lid)) : StackOf(lid)[k].param = p

\* what a registry's entries look like: pattern, parameter list, stack
EntriesView(r) ==
    [i \in 1..Len(routers[r].stack) |->
        LET lid == routers[r].stack[i]
        IN  [path |-> layers[lid].path, paramNames |-> layers[lid].paramNames,
             stack |-> StackOf(lid)]]

\* C9: a configuration call on one registry, the mount included, leaves the
\* entries of the other registry as they were
C9_NoAliasing ==
    [][ \A r \in Routers : ConfigOn(r) =>
            \A o \in Routers \ {r} : EntriesView(o)' = EntriesView(o) ]_vars

----------------------------------------------------------------------------
(* Properties of serving *)

\* what the dispatcher of A matched for the request being served (the lookup
\* path of the first dispatcher of a request is the request path)
Served == RouterMatch(St, "A", ctx.path, ctx.method)

Steps(kind) == SelectSeq(exec.ran, LAMBDA step : step.kind = kind)

\* the middleware steps of the entries ids[i..], entry by entry, stack order
RECURSIVE StacksInOrder(_, _)
StacksInOrder(ids, i) ==
    IF i > Len(ids) THEN <<>>
    ELSE [k \in 1..Len(StackOf(ids[i])) |-> MwStep("A", ids[i], StackOf(ids[i])[k])]
         \o StacksInOrder(ids, i + 1)

AllContinued == exec.pc = "done" /\ Len(Steps("next")) = 1

\* C3: when two or more entries match path and method and every step
\* continues, all their middleware ran in registration order and the exposed
\* pattern and the exposed name are those of the last matching entry
C3_LastMatchExposed ==
    (AllContinued /\ Served.route /\ Len(Served.pathAndMethod) >= 2) =>
        LET last == layers[Served.pathAndMethod[Len(Served.pathAndMethod)]]
        IN  /\ Steps("mw") = StacksInOrder(Served.pathAndMethod, 1)
            /\ ctx.matchedRoute = last.path
            /\ ctx.matchedRouteName = last.name

\* C4: without an exact route the dispatcher runs no binder and no
\* middleware, leaves the parameter map and the exposed pattern and name
\* alone, raises nothing, and hands over to the next handler exactly once
GuardFailures == {"NotImplemented", "MethodNotAllowed"}

C4_NoRouteFallsThrough ==
    (exec.pc # "idle" /\ ~Served.route) =>
        /\ Steps("binder") = <<>>
        /\ Steps("mw") = <<>>
        /\ ctx.params = NoParams
        /\ ctx.matchedRoute = NoPath
        /\ ctx.matchedRouteName = NoName
        /\ exec.failure \in {NoFailure} \cup GuardFailures
        /\ Len(Steps("next")) <= 1
        /\ (Len(Steps("routes")) = 1 /\ Len(Steps("next")) = 0) => exec.todo[1] = NextStep("A")
        /\ exec.pc = "done" => Steps("next") = <<NextStep("A")>>

C4_Witness ==
    /\ exec.pc = "done"
    /\ ~Served.route
    /\ Len(Served.pathAndMethod) = 1
    /\ Len(layers[Served.pathAndMethod[1]].methods) = 0
    /\ Steps("next") = <<NextStep("A")>>

\* the registry A of claim C5: /x with GET and /x with POST, nothing else
IsEntry(lid, path, methods) == layers[lid].path = path /\ layers[lid].methods = methods

GetThenPost ==
    /\ Len(routers["A"].stack) = 2
    /\ IsEntry(routers["A"].stack[1], P("x"), <<"HEAD", "GET">>)
    /\ IsEntry(routers["A"].stack[2], P("x"), <<"POST">>)

PostThenGet ==
    /\ Len(routers["A"].stack) = 2
    /\ IsEntry(routers["A"].stack[1], P("x"), <<"POST">>)
    /\ IsEntry(routers["A"].stack[2], P("x"), <<"HEAD", "GET">>)

PutXDone == exec.pc = "done" /\ ctx.method = "PUT" /\ ctx.path = P("x")

\* C5 as claimed: PUT /x ends with status 405 and Allow: GET, POST
C5_AllowGetPost ==
    (PutXDone /\ (GetThenPost \/ PostThenGet)) =>
        /\ ctx.status = 405
        /\ ctx.allowSet
        /\ ctx.allow = <<"GET", "POST">>

\* C5 as amended: PUT /x ends with status 405 and an Allow header that also
\* lists the HEAD of the GET entry, in first-discovery order
C5_AllowHeadGetPost ==
    /\ (PutXDone /\ GetThenPost) =>
          ctx.status = 405 /\ ctx.allowSet /\ ctx.allow = <<"HEAD", "GET", "POST">>
    /\ (PutXDone /\ PostThenGet) =>
          ctx.status = 405 /\ ctx.allowSet /\ ctx.allow = <<"POST", "HEAD", "GET">>

C5_Witness == PutXDone /\ GetThenPost /\ ctx.status = 405 /\ Len(ctx.allow) = 3

\* the method sets accumulated for the request, as a set
AccumulatedMethods == UNION { Range(layers[ctx.matched[i]].methods) : i \in 1..Len(ctx.matched) }

\* the implemented-method list of the guard about to do its work
ResumingImplemented == routers[Head(exec.post).r].methods

\* the guard (not in throw mode) is about to do its work on a request whose
\* status is unset or 404 and whose method is not implemented
GuardSeesNotImplemented ==
    /\ exec.pc = "run" /\ exec.todo = <<>> /\ exec.post # <<>>
    /\ Head(exec.post).kind = "allowed"
    /\ ~Head(exec.post).options.throw
    /\ ctx.status \in {Unset, 404}
    /\ ~Has(ResumingImplemented, ctx.method)

\* C6: in that case the guard sets status 501 and Allow to the union of the
\* accumulated method sets, whatever the path and whatever matched
C6_NotImplemented501 ==
    [][ GuardSeesNotImplemented =>
            /\ ctx'.status = 501
            /\ ctx'.allowSet
            /\ Range(ctx'.allow) = AccumulatedMethods
            /\ Len(ctx'.allow) = Cardinality(AccumulatedMethods)
            /\ exec'.failure = NoFailure
      ]_vars

\* one dispatch in which every step continues: the context left and the
\* middleware run, from the steps steps[i..]
RECURSIVE RunSteps(_, _, _)
RunSteps(st, steps, acc) ==
    IF steps = <<>> THEN acc
    ELSE LET step == Head(steps)
         IN  IF step.kind = "binder"
             THEN RunSteps(st, Tail(steps),
                           [acc EXCEPT !.ctx = Binder(@, st.layers[step.layer], step.path)])
             ELSE IF step.kind = "mw"
             THEN RunSteps(st, Tail(steps), [acc EXCEPT !.ran = Append(@, step.mw)])
             ELSE RunSteps(st, Tail(steps), acc)

RunDispatch(r, c) ==
    RunSteps(St, DispatchChain(St, r, c), [ctx |-> DispatchCtx(St, r, c), ran |-> <<>>])

\* registry A holds exactly the merged copies of B's entries under the mount
\* path: same stack array, same methods, the pattern prefixed by the mount
\* path (a bare root replaced by it)
MountPath == P("m") \o P(":b")
MountedAt(path, nestedPath) == IF nestedPath = RootPath THEN path ELSE path \o nestedPath

BMountedInA ==
    /\ routers["A"].prefix = NoPath
    /\ Len(routers["B"].stack) > 0
    /\ Len(routers["A"].stack) = Len(routers["B"].stack)
    /\ \A i \in 1..Len(routers["B"].stack) :
          LET a == layers[routers["A"].stack[i]]
              b == layers[routers["B"].stack[i]]
          IN  /\ a.path = MountedAt(MountPath, b.path)
              /\ a.stack = b.stack
              /\ a.methods = b.methods

\* the requests of claim C10: a path of B, and the same path under the mount
\* point with the value 1 for the mount path's parameter
NestedPaths == { RootPath, P("2"), P("x") }
UnderMount(path) == P("m") \o P("1") \o path
Supplied == [n \in {"b"} |-> "1"]

ViaA(method, path) == RunDispatch("A", NewCtx(method, UnderMount(path), Unset))
ViaB(method, path) == RunDispatch("B", [NewCtx(method, path, Unset) EXCEPT !.params = Supplied])

\* C10: with B mounted in A, a request that finds a route runs the same
\* middleware in the same order and ends with the same parameter map whether
\* it is dispatched against A under the mount point or against B directly
\* with the mount path's parameter supplied
C10_MountEquivalence ==
    (exec.pc = "idle" /\ BMountedInA) =>
        \A method \in ServeMethods, path \in NestedPaths :
            LET foundA == RouterMatch(St, "A", UnderMount(path), method).route
                foundB == RouterMatch(St, "B", path, method).route
            IN  /\ foundA = foundB
                /\ foundB =>
                      /\ ViaA(method, path).ran = ViaB(method, path).ran
                      /\ ViaA(method, path).ctx.params = ViaB(method, path).ctx.params

C10_Witness ==
    /\ exec.pc = "idle"
    /\ BMountedInA
    /\ ViaA("GET", P("2")).ran = <<Mw("h2")>>
    /\ ViaA("GET", P("2")).ctx.params = [n \in {"a", "b"} |-> IF n = "a" THEN "2" ELSE "1"]
    /\ ViaB("GET", P("2")).ctx.params = [n \in {"a", "b"} |-> IF n = "a" THEN "2" ELSE "1"]

----------------------------------------------------------------------------
(* Mounting one registry into another: B's entries, A's own entry and      *)
(* prefix, and the mount of B's dispatcher at one path or an array of paths *)

MountPathInputs == { <<P("m") \o P(":b")>>, <<RootPath>>, <<P("m"), P("k")>> }

NextMount ==
    \/ \E path \in {RootPath, P("x"), P(":a")} :
          CfgVerb("B", "get", NoName, <<path>>, <<Mw("h2")>>)
    \/ CfgVerb("A", "get", NoName, <<P("x")>>, <<Mw("h1")>>)
    \/ \E prefix \in PrefixInputs : CfgPrefix("A", prefix)
    \/ \E paths \in MountPathInputs : CfgMount("A", paths, "B")

SpecMount == Init /\ [][NextMount]_vars

\* the pattern of a merged copy in closed form: prefix, mount path, original
\* pattern, a bare-root original giving way to the mount path
PrefixMountOriginal(prefix, m, original) ==
    prefix \o m \o (IF original = RootPath THEN <<>> ELSE original)

\* the same, except that under a prefix a bare-root original mounted at the
\* bare root is the prefix alone
PrefixMountOriginalOrPrefix(prefix, m, original) ==
    IF prefix # NoPath /\ m = RootPath /\ original = RootPath
    THEN prefix
    ELSE PrefixMountOriginal(prefix, m, original)

\* a mount of B into A at the paths appends, after A's entries, one group of
\* copies per path in array order, each group in B's registration order,
\* with the patterns that composed gives
MountAppendsGroups(paths, composed(_, _, _)) ==
    LET old == routers["A"].stack
        nested == routers["B"].stack
        n == Len(nested)
        new == routers["A"].stack'
    IN  /\ Len(new) = Len(old) + Len(paths) * n
        /\ SubSeq(new, 1, Len(old)) = old
        /\ \A k \in 1..Len(paths), i \in 1..n :
              LET copy == new[Len(old) + (k - 1) * n + i]
              IN  /\ copy \notin Range(old) \cup Range(nested)
                  /\ layers'[copy].path =
                        composed(routers["A"].prefix, paths[k], layers[nested[i]].path)
                  /\ layers'[copy].methods = layers[nested[i]].methods

----------------------------------------------------------------------------
(* Parameters and the path-match accumulator: an application that runs the *)
(* dispatcher of A, then the dispatcher of B, then the guard              *)

ParamsPaths == { P("42"), P("%41"), P("%"), P("m") \o P("1") }
ParamsGiven == { NoParams, [n \in {"a", "z"} |-> "9"] }
ParamsPipelines == { <<RoutesStep("A"), RoutesStep("B"), GuardStep("B", NoOptions)>> }

ParamsConfig ==
    /\ exec.pc = "idle"
    /\ nOps < MaxServeOps
    /\ \/ CfgVerb("A", "get", NoName, <<P(":a")>>, <<Mw("h1")>>)
       \/ CfgVerb("A", "get", NoName, <<P(":a") \o P(":b"), P(":b") \o P(":a")>>,
                  <<Mw("h1")>>)
       \/ CfgUse("A", TRUE, P(":b"), "u1")
       \/ \E path \in {P(":a"), P(":b")} :
             CfgVerb("B", "get", NoName, <<path>>, <<Mw("h2")>>)

ParamsRequest ==
    \E method \in {"GET", "POST"}, path \in ParamsPaths, params \in ParamsGiven,
       pipeline \in ParamsPipelines : RequestWith(method, path, Unset, params, pipeline)

NextParams == ParamsConfig \/ ParamsRequest \/ Run

SpecParams == Init /\ [][NextParams]_vars

\* what the entry of a binder step captures from the step's lookup path:
\* the positions that have a key and a non-empty capture
CapturedAt(step) ==
    LET layer == layers[step.layer]
        captures == LayerCaptures(layer, step.path)
    IN  { i \in 1..Len(captures) : i <= Len(layer.paramNames) /\ captures[i] # "" }

CapturedNames(step) == { layers[step.layer].paramNames[i] : i \in CapturedAt(step) }

\* the decoded value the entry of a binder step captures for the name n
CapturedValue(step, n) ==
    LET layer == layers[step.layer]
        at == { i \in CapturedAt(step) : layer.paramNames[i] = n }
        last == CHOOSE i \in at : \A j \in at : j <= i
    IN  SafeDecodeURIComponent(LayerCaptures(layer, step.path)[last])

\* the cumulative map after the binder steps binders, from the map given
Cumulative(given, binders) ==
    LET capturing(n) == { k \in 1..Len(binders) : n \in CapturedNames(binders[k]) }
        latest(n) == CHOOSE k \in capturing(n) : \A j \in capturing(n) : j <= k
    IN  [n \in (DOMAIN given) \cup UNION { CapturedNames(binders[k]) : k \in 1..Len(binders) } |->
            IF capturing(n) # {} THEN CapturedValue(binders[latest(n)], n) ELSE given[n]]

\* the entries whose binder has run, for the dispatcher of registry r
BoundBy(r) ==
    LET of == SelectSeq(Steps("binder"), LAMBDA step : step.r = r)
    IN  [k \in 1..Len(of) |-> of[k].layer]

IsPrefixOf(s, t) == Len(s) <= Len(t) /\ s = SubSeq(t, 1, Len(s))

\* C12: at every point of a request the parameter map is the given map
\* overlaid with the captures of the entries whose binder has run, the
\* latest capture of a name winning, and the binders of the first dispatcher
\* run for the entries of pathAndMethodMatches in order
C12_CumulativeParams ==
    exec.pc \in {"run", "done", "failed"} =>
        /\ ctx.params = Cumulative(exec.given, Steps("binder"))
        /\ IsPrefixOf(BoundBy("A"), RouterMatch(St, "A", ctx.path, ctx.method).pathAndMethod)

\* /m/1 against /:a/:b and then /:b/:a: the later entry's values stand, and
\* the given parameter z is kept
C12_Witness ==
    /\ exec.pc = "run"
    /\ Len(BoundBy("A")) = 2
    /\ layers[BoundBy("A")[1]].path = P(":a") \o P(":b")
    /\ layers[BoundBy("A")[2]].path = P(":b") \o P(":a")
    /\ ctx.params = [n \in {"a", "b", "z"} |->
                        IF n = "a" THEN "1" ELSE IF n = "b" THEN "m" ELSE "9"]

\* the last step run is the binder of an entry /:a against the request path
BoundSegment ==
    /\ exec.ran # <<>>
    /\ exec.ran[Len(exec.ran)].kind = "binder"
    /\ layers[exec.ran[Len(exec.ran)].layer].path = P(":a")
    /\ exec.ran[Len(exec.ran)].path = ctx.path
    /\ Len(ctx.path) = 2

\* C13: the binder of /:a stores a well-formed escape decoded (%41 as A), a
\* plain segment as it is (42) and a malformed escape as the raw text (%),
\* and in no case does the binder fail
C13_SafeDecode ==
    BoundSegment =>
        /\ "a" \in DOMAIN ctx.params
        /\ ctx.path = P("%41") => ctx.params["a"] = "A"
        /\ ctx.path = P("42") => ctx.params["a"] = "42"
        /\ ctx.path = P("%") => ctx.params["a"] = "%"
        /\ exec.pc = "run"
        /\ exec.failure = NoFailure

C13_Witness ==
    /\ BoundSegment
    /\ ctx.path = P("%")
    /\ ctx.params = [n \in {"a"} |-> "%"]
    /\ exec.pc = "run"

\* the entries of registry r whose pattern matches the path, in order
PathMatchesOf(r, path) ==
    SelectSeq(routers[r].stack, LAMBDA lid : LayerMatch(layers[lid], path))

\* C18: a dispatch call appends its own path matches, in registration
\* order, to the accumulator, whether or not it finds a route; every other
\* step of a request leaves the accumulator as it is
C18_AccumulatorAppendOnly ==
    [][ /\ StepRoutes =>
              /\ ctx'.hasMatched
              /\ ctx'.matched =
                    ctx.matched \o PathMatchesOf(Head(exec.todo).r,
                                                 LookupPath(St, Head(exec.todo).r, ctx))
        /\ (exec.pc = "run" /\ ~StepRoutes) =>
              ctx'.matched = ctx.matched /\ ctx'.hasMatched = ctx.hasMatched
      ]_vars

\* both dispatchers have run and handed over to the handler after them, and
\* the accumulator holds a path match of A followed by a path match of B
C18_Witness ==
    /\ Len(Steps("routes")) = 2
    /\ Len(ctx.matched) >= 2
    /\ ctx.matched[1] \in Range(routers["A"].stack)
    /\ ctx.matched[Len(ctx.matched)] \in Range(routers["B"].stack)
    /\ Steps("next") = <<NextStep("A"), NextStep("B")>>

----------------------------------------------------------------------------
(* The methods guard: its options, its place in the pipeline (after the    *)
(* dispatchers, or wrapped around the dispatcher), the status it finds     *)

GuardOptionInputs ==
    { NoOptions,
      GuardOptions(TRUE, NoFailure, NoFailure),
      GuardOptions(TRUE, "Boom501", "Boom405"),
      GuardOptions(FALSE, "Boom501", "Boom405") }

GuardPipelines ==
    UNION { { <<RoutesStep("A"), RoutesStep("B"), GuardStep("A", options)>>,
              <<GuardStep("A", options), RoutesStep("A")>> } :
            options \in GuardOptionInputs }

GuardConfig ==
    /\ exec.pc = "idle"
    /\ nOps < MaxServeOps
    /\ \/ CfgVerb("A", "get", NoName, <<P("x")>>, <<Mw("h1")>>)
       \/ CfgVerb("B", "post", NoName, <<P("x")>>, <<Mw("h2")>>)
       \/ CfgAll("A", NoName, <<P("x")>>, <<Mw("h1")>>)
       \/ CfgUse("A", TRUE, P("x"), "u1")

GuardRequest ==
    \E method \in ServeMethods, status \in {Unset, 404, 200}, pipeline \in GuardPipelines :
        Request(method, P("x"), status, pipeline)

NextGuard == GuardConfig \/ GuardRequest \/ Run

SpecGuard == Init /\ [][NextGuard]_vars

\* The application uses a guard of A with no dispatcher ahead of it or
\* behind it, or the dispatcher of A followed by the guard of B, a registry
\* constructed with a method list of its own that lacks OPTIONS
InitAlone ==
    /\ routers = [r \in Routers |-> IF r = "B" THEN RouterImplementing(<<"GET", "POST">>)
                                    ELSE NewRouter]
    /\ layers = <<>>
    /\ stacks = <<>>
    /\ nOps = 0
    /\ result = NoResult
    /\ ctx = NewCtx("GET", RootPath, Unset)
    /\ exec = Idle

AlonePipelines ==
    UNION { { <<GuardStep("A", options)>>,
              <<RoutesStep("A"), GuardStep("B", options)>> } :
            options \in GuardOptionInputs }

AloneRequest ==
    \E method \in ServeMethods, status \in {Unset, 404, 200}, pipeline \in AlonePipelines :
        Request(method, P("x"), status, pipeline)

NextAlone == GuardConfig \/ AloneRequest \/ Run

SpecAlone == InitAlone /\ [][NextAlone]_vars

\* downstream has completed and a guard is about to do its work
GuardResumes == exec.pc = "run" /\ exec.todo = <<>> /\ exec.post # <<>>
ResumingOptions == Head(exec.post).options
StatusOpen == ctx.status = Unset \/ ctx.status = 404

\* the guard completed without failing and left the response as it was
GuardLeavesResponse ==
    /\ exec'.pc = "run"
    /\ exec'.failure = NoFailure
    /\ ctx' = ctx

\* the guard set the Allow header to the union of the accumulated method sets
AllowIsUnion ==
    /\ ctx'.allowSet
    /\ Range(ctx'.allow) = AccumulatedMethods
    /\ Len(ctx'.allow) = Cardinality(AccumulatedMethods)

\* C14: with the status unset or 404, the method OPTIONS and a non-empty
\* union, the guard sets status 200, an empty body and Allow to the union,
\* and does not fail, whatever its options
C14_OptionsAnswered ==
    [][ (GuardResumes /\ StatusOpen /\ ctx.method = "OPTIONS" /\ AccumulatedMethods # {}) =>
            /\ ctx'.status = 200
            /\ ctx'.body = ""
            /\ AllowIsUnion
            /\ exec'.pc = "run"
            /\ exec'.failure = NoFailure
      ]_vars

\* a guard in throw mode has answered an OPTIONS request
C14_Witness ==
    /\ exec.pc = "done"
    /\ ctx.method = "OPTIONS"
    /\ ctx.status = 200 /\ ctx.body = "" /\ ctx.allowSet /\ ctx.allow # <<>>
    /\ Steps("allowed") # <<>>
    /\ Steps("allowed")[1].options.throw

\* the cases outside the guard's decision rows
StatusSettled == ~StatusOpen
NothingAccumulated == Has(ResumingImplemented, ctx.method) /\ AccumulatedMethods = {}
MethodAllowed ==
    /\ Has(ResumingImplemented, ctx.method)
    /\ ctx.method # "OPTIONS"
    /\ ctx.method \in AccumulatedMethods

\* C15: when the status downstream left is set and is not 404, or the
\* method is implemented and nothing was accumulated, or the method is
\* implemented, is not OPTIONS and is in the union, the guard changes
\* nothing of the response and does not fail
C15_GuardNoChange ==
    [][ (GuardResumes /\ (StatusSettled \/ NothingAccumulated \/ MethodAllowed)) =>
            GuardLeavesResponse
      ]_vars

\* the conditions of the 501 row and of the 405 row
NotImplementedRow == StatusOpen /\ ~Has(ResumingImplemented, ctx.method)
MethodNotAllowedRow ==
    /\ StatusOpen
    /\ Has(ResumingImplemented, ctx.method)
    /\ AccumulatedMethods # {}
    /\ ctx.method # "OPTIONS"
    /\ ctx.method \notin AccumulatedMethods

\* the guard failed with the given value and left the context as it was
GuardFailsWith(custom, default) ==
    /\ exec'.pc = "failed"
    /\ exec'.failure = (IF custom # NoFailure THEN custom ELSE default)
    /\ ctx' = ctx

\* the guard completed without failing and set the status and the header
GuardResponds(status) ==
    /\ exec'.pc = "run"
    /\ exec'.failure = NoFailure
    /\ ctx'.status = status
    /\ AllowIsUnion
    /\ ctx'.body = ctx.body

\* C16: in throw mode the 501 row and the 405 row end in a failure, the
\* custom value if one is supplied and NotImplemented or MethodNotAllowed
\* otherwise, with status and Allow header left alone; outside those rows
\* the guard does not fail; without throw mode it never fails and sets
\* status 501 or 405 and the Allow header instead
C16_ThrowMode ==
    [][ GuardResumes =>
            /\ (ResumingOptions.throw /\ NotImplementedRow) =>
                  GuardFailsWith(ResumingOptions.notImplemented, "NotImplemented")
            /\ (ResumingOptions.throw /\ MethodNotAllowedRow) =>
                  GuardFailsWith(ResumingOptions.methodNotAllowed, "MethodNotAllowed")
            /\ (ResumingOptions.throw /\ ~NotImplementedRow /\ ~MethodNotAllowedRow) =>
                  exec'.failure = NoFailure /\ exec'.pc = "run"
            /\ ~ResumingOptions.throw => exec'.failure = NoFailure /\ exec'.pc = "run"
            /\ (~ResumingOptions.throw /\ NotImplementedRow) => GuardResponds(501)
            /\ (~ResumingOptions.throw /\ MethodNotAllowedRow) => GuardResponds(405)
      ]_vars

\* the method sets of the accumulated entries matched[i..], end to end
RECURSIVE MethodsEndToEnd(_, _)
MethodsEndToEnd(matched, i) ==
    IF i > Len(matched) THEN <<>>
    ELSE layers[matched[i]].methods \o MethodsEndToEnd(matched, i + 1)

\* C17: an Allow header the guard has set lists every method of the
\* accumulated entries exactly once, ordered by first occurrence in a scan
\* of the accumulator front to back and of each method set front to back
C17_AllowFirstDiscovery ==
    ctx.allowSet =>
        LET all == MethodsEndToEnd(ctx.matched, 1)
        IN  /\ Range(ctx.allow) = Range(all)
            /\ \A i, j \in 1..Len(ctx.allow) :
                  i < j => /\ ctx.allow[i] # ctx.allow[j]
                           /\ IndexOf(all, ctx.allow[i]) < IndexOf(all, ctx.allow[j])

\* an Allow header over an all-methods entry of A (whose method set holds
\* HEAD twice) followed by a POST entry of B
C17_Witness ==
    /\ ctx.allowSet
    /\ Len(ctx.matched) = 2
    /\ ctx.matched[2] \in Range(routers["B"].stack)
    /\ Len(MethodsEndToEnd(ctx.matched, 1)) = Len(HttpVerbs) + 2
    /\ ctx.allow = <<"HEAD">> \o SelectSeq(UpperVerbs, LAMBDA m : m # "HEAD")

----------------------------------------------------------------------------
(* Named entries, URL generation by name, and registrations that hand in a *)
(* value that is no function                                                *)

NameInputs == {"n1", "n2"}
UrlArgs == { <<>>, <<"7">> }
BadMiddleware == { <<NonCallable>>, <<Mw("h1"), NonCallable>> }
BadPaths == { <<P("x")>>, <<P("x"), P(":a")>> }

RegisterBad(r) ==
    \/ \E verb \in VerbInputs, name \in {NoName, "n1"}, paths \in BadPaths,
          middleware \in BadMiddleware : CfgVerb(r, verb, name, paths, middleware)
    \/ \E middleware \in BadMiddleware : CfgAll(r, NoName, <<P("x")>>, middleware)

\* a shortcut called with a name and an array of paths: the array comes in
\* the place of the first middleware
RegisterNamedArray(r) ==
    \E name \in NameInputs :
        \/ CfgVerb(r, "post", name, <<P("x"), P(":a")>>, <<Mw("h1")>>)
        \/ CfgAll(r, name, <<P("x"), P(":a")>>, <<Mw("h1")>>)

NextNames ==
    \/ \E name \in NameInputs \cup {NoName}, path \in {P("x"), P(":a")} :
          CfgVerb("A", "get", name, <<path>>, <<Mw("h1")>>)
    \/ RegisterNamedArray("A")
    \/ CfgParam("A", "a", "v1")
    \/ RegisterBad("A")
    \/ \E name \in NameInputs, args \in UrlArgs : CfgUrl("A", name, args)

SpecNames == Init /\ [][NextNames]_vars

\* the positions in registry r's entry sequence of the entries named name
NamedAt(r, name) ==
    { i \in 1..Len(routers[r].stack) : layers[routers[r].stack[i]].name = name }

\* C19: url with a name no entry carries returns an error value, throws
\* nothing and leaves the registry as it was; with a name some entry
\* carries the result is that of the url of the first such entry in
\* registration order
C19_UrlByName ==
    [][ \A name \in NameInputs, args \in UrlArgs :
            CfgUrl("A", name, args) =>
                /\ NamedAt("A", name) = {} =>
                      /\ result'.threw = NoFailure
                      /\ result'.error # NoFailure
                      /\ result'.url = NoPath
                      /\ routers' = routers /\ layers' = layers /\ stacks' = stacks
                /\ NamedAt("A", name) # {} =>
                      LET first == CHOOSE i \in NamedAt("A", name) :
                                       \A j \in NamedAt("A", name) : i <= j
                      IN  /\ result' = LayerUrl(layers[routers["A"].stack[first]], args)
                          /\ result'.error = NoFailure
      ]_vars

\* a lookup by a name no entry carries, in a registry that has a named entry
C19_Witness ==
    /\ result.error # NoFailure
    /\ result.threw = NoFailure
    /\ \E i \in 1..Len(routers["A"].stack) : layers[routers["A"].stack[i]].name # NoName

\* C20: a registration, through a per-verb shortcut or the all-methods
\* shortcut, with a middleware value that is no function throws, appends
\* no entry and leaves the entries and the validator map as they were
C20_NonCallableRejected ==
    [][ (RegisterBad("A") \/ RegisterNamedArray("A")) =>
            /\ result'.threw = "Error"
            /\ routers' = routers
            /\ layers' = layers
            /\ SubSeq(stacks', 1, Len(stacks)) = stacks
      ]_vars

\* a rejected registration on a registry that has an entry and a validator
C20_Witness ==
    /\ result.threw = "Error"
    /\ Len(routers["A"].stack) = 1
    /\ Len(routers["A"].params) = 1
    /\ nOps = 3

----------------------------------------------------------------------------
(* Prefixes: registry A, constructed with or without a prefix, and the     *)
(* strict registry B; registrations of the bare root and of /x, and calls  *)
(* of prefix                                                               *)

PrefixCalls == { P("p") \o <<Slash>>, P("q"), RootPath }
RawPaths == { RootPath, P("x") }

InitPrefix ==
    /\ \E prefix \in {NoPath, P("p")} :
          routers = [r \in Routers |->
                        IF r = "A" THEN RouterWith(prefix, FALSE) ELSE RouterWith(NoPath, TRUE)]
    /\ layers = <<>>
    /\ stacks = <<>>
    /\ nOps = 0
    /\ result = NoResult
    /\ ctx = NewCtx("GET", RootPath, Unset)
    /\ exec = Idle

NextPrefix ==
    \E r \in Routers :
        \/ \E name \in {NoName, "n1"}, path \in RawPaths :
              CfgVerb(r, "get", name, <<path>>, <<Mw("h1")>>)
        \/ \E prefix \in PrefixCalls : CfgPrefix(r, prefix)

SpecPrefix == InitPrefix /\ [][NextPrefix]_vars

\* the prefix without one trailing separator
WithoutTrailingSeparator(prefix) ==
    IF Len(prefix) > 0 /\ prefix[Len(prefix)] = Slash
    THEN [i \in 1..(Len(prefix) - 1) |-> prefix[i]]
    ELSE prefix

\* the pattern the claim gives an entry under the prefix p
Reprefixed(p, pattern, strict) ==
    IF pattern = RootPath /\ ~strict THEN p ELSE p \o pattern

\* C21: prefix(p) stores p without one trailing separator and gives every
\* existing entry the pattern: the prefix alone for a non-strict bare root,
\* the prefix followed by the previous pattern otherwise; the sequence, the
\* method sets, the names and the stacks stay as they were
C21_SetPrefix ==
    [][ \A r \in Routers, prefix \in PrefixCalls :
            CfgPrefix(r, prefix) =>
                /\ routers'[r].prefix = WithoutTrailingSeparator(prefix)
                /\ routers'[r].stack = routers[r].stack
                /\ stacks' = stacks
                /\ \A i \in 1..Len(routers[r].stack) :
                      LET old == layers[routers[r].stack[i]]
                          new == layers'[routers[r].stack[i]]
                      IN  /\ new.path = Reprefixed(WithoutTrailingSeparator(prefix),
                                                   old.path, old.opts.strict)
                          /\ new.methods = old.methods
                          /\ new.name = old.name
                          /\ new.stack = old.stack
      ]_vars

\* C25: every entry's pattern is the registry's current prefix applied once
\* to a raw path that was registered (stated for a registry whose current
\* prefix is not empty), so that an entry registered before the last prefix
\* call and one registered after it with the same raw path have the same
\* pattern
C25_PrefixAppliedOnce ==
    \A r \in Routers : routers[r].prefix # NoPath =>
        \A i \in 1..Len(routers[r].stack) :
            layers[routers[r].stack[i]].path \in
                { Reprefixed(routers[r].prefix, raw, routers[r].strict) : raw \in RawPaths }

----------------------------------------------------------------------------
(* The lookup path *)

\* C26: no override is set before a request, so every dispatcher that runs
\* during the request matches against the raw request path, also after an
\* earlier dispatcher of the same request matched a route and its chain
\* continued
C26_LookupPathStable ==
    [][ StepRoutes => LookupPath(St, Head(exec.todo).r, ctx) = ctx.path ]_vars

----------------------------------------------------------------------------
(* One validator per parameter on the outer registry *)

\* router.param(p, fn) on A, once for each parameter, before anything is
\* registered on A or mounted into it
ParamOnce ==
    \E param \in ParamNamesAll :
        /\ ~StoresValidator("A", param)
        /\ routers["A"].stack = <<>>
        /\ CfgParam("A", param, "v1")

\* registrations on either registry, validators on A only and once each,
\* B mounted into A
NextParamOnce ==
    \/ \E r \in Routers : RegisterOn(r)
    \/ ParamOnce
    \/ \E paths \in MountInputs : CfgMount("A", paths, "B")

SpecParamOnce == Init /\ [][NextParamOnce]_vars

WrappersFor(stack, p) == { k \in 1..Len(stack) : stack[k].param = p }

\* C27: a parameter's validator was added once to A, so no entry's stack
\* holds more than one wrapper for that parameter, whatever was registered
\* on A or mounted into it
C27_OneWrapperPerParam ==
    \A p \in ParamNamesAll : StoresValidator("A", p) =>
        \A lid \in EntryIds : Cardinality(WrappersFor(StackOf(lid), p)) <= 1

----------------------------------------------------------------------------
(* The guard around the dispatcher *)

\* a guard waits and downstream has ended without reaching the handler that
\* follows the dispatcher: a step returned without continuing
DownstreamDeclined == GuardResumes /\ Steps("next") = <<>>

\* a step of the chain fails while a guard waits
DownstreamFails ==
    /\ exec.pc = "run" /\ exec.todo # <<>> /\ exec.post # <<>>
    /\ exec'.pc = "failed"

\* C23: a guard that wraps the dispatcher post-processes only when
\* downstream ran to completion by continuing; when a downstream step
\* declines to continue or fails, the guard changes nothing of the response
C23_GuardOnlyAfterCompletion ==
    [][ /\ DownstreamDeclined => GuardLeavesResponse
        /\ DownstreamFails => (exec'.post = <<>> /\ ctx' = ctx)
      ]_vars

----------------------------------------------------------------------------
(* The chain of one dispatch *)

ChainPaths == { P("1"), P("m") \o P("1") }
ChainPipelines == { <<RoutesStep("A"), GuardStep("A", NoOptions)>> }

\* entries with a stack of two, a validator on A, an entry of B merged into A
ChainConfig ==
    /\ exec.pc = "idle"
    /\ \/ CfgVerb("A", "get", NoName, <<P(":a")>>, <<Mw("h1"), Mw("h3")>>)
       \/ CfgVerb("B", "get", NoName, <<P(":a")>>, <<Mw("h2")>>)
       \/ CfgParam("A", "a", "v1")
       \/ CfgMount("A", <<P("m")>>, "B")

ChainRequest ==
    \E method \in {"GET", "POST"}, path \in ChainPaths, pipeline \in ChainPipelines :
        Request(method, path, Unset, pipeline)

NextChain == ChainConfig \/ ChainRequest \/ Run

SpecChain == Init /\ [][NextChain]_vars

\* the steps of one matched entry: its binder, then its stack in stack order
EntrySteps(lid) ==
    <<BinderStep("A", lid, ctx.path)>>
        \o [k \in 1..Len(StackOf(lid)) |-> MwStep("A", lid, StackOf(lid)[k])]

RECURSIVE EntriesInSequence(_, _)
EntriesInSequence(ids, i) ==
    IF i > Len(ids) THEN <<>> ELSE EntrySteps(ids[i]) \o EntriesInSequence(ids, i + 1)

InDispatch(step) == step.kind \in {"binder", "mw", "next"}
Started == SelectSeq(exec.ran, InDispatch)
Pending == SelectSeq(exec.todo, InDispatch)
Dispatched == exec.pc # "idle" /\ Steps("routes") # <<>> /\ Served.route

\* a step of the dispatch has returned without continuing, or has failed
Halted == Dispatched /\ Pending = <<>> /\ Steps("next") = <<>>

\* C22: the steps a dispatch has started are an initial part of the sequence
\* binder, stack, binder, stack, ... over the matched entries in order
\* followed by the next handler; as long as every step continued, what is
\* still to run is exactly the rest of that sequence; and once a step has
\* declined to continue, no later binder, middleware or next handler of the
\* request is started
C22_ChainInSequence ==
    /\ [](Dispatched =>
            LET whole == EntriesInSequence(Served.pathAndMethod, 1) \o <<NextStep("A")>>
            IN  /\ IsPrefixOf(Started, whole)
                /\ Pending # <<>> => Started \o Pending = whole
                /\ Steps("next") # <<>> => Started = whole)
    /\ [][ (Halted /\ exec'.ran # <<>>) =>
              /\ SelectSeq(exec'.ran, InDispatch) = Started
              /\ SelectSeq(exec'.todo, InDispatch) = <<>>
         ]_vars

\* the second of two matched entries with a stack of two has declined after
\* the first entry's steps all continued
C22_Witness ==
    /\ Halted
    /\ Len(Served.pathAndMethod) >= 2
    /\ Len(Started) = 5
    /\ Started[5].kind = "mw"
    /\ Started[5].layer = Served.pathAndMethod[2]
    /\ exec.pc = "done"

----------------------------------------------------------------------------
(* Failures of the chain *)

LastRan == exec.ran[Len(exec.ran)]
FailedInChain == exec.pc = "failed" /\ exec.ran # <<>> /\ LastRan.kind = "mw"

\* C24: when a middleware of a matched entry fails, the request ends with
\* that middleware's own failure value, nothing is left to run, no waiting
\* guard is resumed, the context is as the failing step found it, and no
\* step runs afterwards
C24_FailurePropagates ==
    /\ [](FailedInChain =>
            /\ exec.failure = LastRan.mw.fn
            /\ exec.todo = <<>>
            /\ exec.post = <<>>)
    /\ [][ /\ (Running({"mw"}) /\ exec'.pc = "failed") =>
                 (exec'.failure = Head(exec.todo).mw.fn /\ ctx' = ctx)
           /\ FailedInChain => exec'.ran = <<>>
         ]_vars

\* the validator wrapper of an entry merged from B has failed, ahead of the
\* entry's own middleware
C24_Witness ==
    /\ FailedInChain
    /\ LastRan.mw.param = "a"
    /\ layers[LastRan.layer].path = P("m") \o P(":a")
    /\ exec.failure = "v1"
    /\ Steps("mw") = <<LastRan>>

----------------------------------------------------------------------------
(* The entry sequence over the life of a registry *)

LifecyclePaths == { P("x"), P("p") \o P("x") }


\* every kind of configuration call
LifecycleConfig ==
    \/ CfgVerb("A", "get", NoName, <<P(":a")>>, <<Mw("h1")>>)
    \/ CfgAll("A", "n1", <<P("x")>>, <<Mw("h1")>>)
    \/ CfgUse("A", TRUE, P("x"), "u1")
    \/ CfgVerb("B", "get", NoName, <<RootPath>>, <<Mw("h2")>>)
    \/ CfgMount("A", <<P("x"), P("k")>>, "B")
    \/ CfgMount("A", <<P("k")>>, "A")
    \/ \E r \in Routers : CfgPrefix(r, P("p"))
    \/ CfgParam("A", "a", "v1")
    \/ \E source \in { P("x"), <<"n1">> }, code \in {0, 302} :
          CfgRedirect("A", source, P("x"), code)

LifecycleRequest ==
    \E method \in {"GET", "PUT"}, path \in LifecyclePaths, pipeline \in ServePipelines :
        Request(method, path, Unset, pipeline)

NextLifecycle == LifecycleConfig \/ LifecycleRequest \/ Run

SpecLifecycle == Init /\ [][NextLifecycle]_vars

SequenceOf(r) == routers[r].stack

\* the entries a step added to r are new ones, at the end
AppendsNew(r) ==
    /\ IsPrefixOf(SequenceOf(r), routers'[r].stack)
    /\ \A i \in (Len(SequenceOf(r)) + 1)..Len(routers'[r].stack) :
          routers'[r].stack[i] > Len(layers)

\* C28: every step keeps each registry's entry sequence as an initial part
\* of the new one, the added entries being new ones, and destroys no entry;
\* a prefix call and a validator call keep the sequence as it is; a request
\* and the steps of its dispatch leave registries, entries and stacks
\* unchanged
C28_SequenceAppendOnly ==
    [][ /\ \A r \in Routers : AppendsNew(r)
        /\ IsPrefixOf([i \in 1..Len(layers) |-> layers[i].stack],
                      [i \in 1..Len(layers') |-> layers'[i].stack])
        /\ \A r \in Routers :
              (CfgPrefix(r, P("p")) \/ CfgParam(r, "a", "v1")) =>
                  routers'[r].stack = SequenceOf(r)
        /\ (LifecycleRequest \/ Run) => UNCHANGED <<routers, layers, stacks>>
      ]_vars

\* a registry into which an entry of B was mounted at two paths and which
\* was then prefixed has dispatched a request to a merged entry
C28_Witness ==
    /\ exec.pc = "done"
    /\ Steps("binder") # <<>>
    /\ routers["A"].prefix = P("p")
    /\ Len(SequenceOf("B")) = 1
    /\ Len(SequenceOf("A")) = 2
    /\ layers[SequenceOf("A")[2]].path = P("p") \o P("k")

=============================================================================
